---- MODULE Spec2Model ----
(***************************************************************************)
(* Model of the model-selection ranking engine of pytaaa_web               *)
(* (app/utils/model_selection.py, class ModelSelection).                   *)
(*                                                                         *)
(* Portfolio values are integers; every quantity the engine derives from   *)
(* them is kept exactly: rationals as normalised fractions, the annualised *)
(* return as sg * b^e - 1 with b and e rational, the Sharpe and Sortino    *)
(* ratios as sg * sqrt(252 * q) with q rational, the Calmar ratio as a     *)
(* quotient.  Comparisons are exact comparisons of real numbers; the       *)
(* rounding of IEEE doubles is not modelled.                               *)
(***************************************************************************)
EXTENDS Integers, Sequences, FiniteSets, TLC

(***************************************************************************)
(* Bounds of the model.                                                    *)
(***************************************************************************)
MaxDate == 4
MaxLen == 4
MaxDays == 5
MaxRun == 4
MaxStep == 3
NumCalls == 2
MaxHistory == 3
MaxQueryDays == 3
MaxLines == 3
MaxSnapshots == 3

(***************************************************************************)
(* Exact arithmetic.                                                       *)
(***************************************************************************)
Abs(x) == IF x < 0 THEN -x ELSE x

Sign(x) == IF x > 0 THEN 1 ELSE IF x < 0 THEN -1 ELSE 0

Min(a, b) == IF a <= b THEN a ELSE b

RECURSIVE GCD(_, _)
GCD(a, b) == IF b = 0 THEN a ELSE GCD(b, a % b)

RECURSIVE IntPow(_, _)
IntPow(b, k) == IF k = 0 THEN 1 ELSE b * IntPow(b, k - 1)

\* The loud failure of a comparison the exact procedure cannot decide.
Undecided == CHOOSE b \in {} : TRUE

\* The fraction n/d in lowest terms with a positive denominator.
Rat(n, d) ==
    LET g == GCD(Abs(n), Abs(d))
        s == IF d < 0 THEN -1 ELSE 1
    IN  [n |-> (s * n) \div g, d |-> (s * d) \div g]

RatInt(i) == [n |-> i, d |-> 1]

\* Sums over the least common denominator and products after cancelling,
\* which keeps the intermediate integers small.
RatAdd(x, y) ==
    LET g == GCD(x.d, y.d)
    IN  Rat(x.n * (y.d \div g) + y.n * (x.d \div g), (x.d \div g) * y.d)

RatNeg(x) == [n |-> -x.n, d |-> x.d]

RatSub(x, y) == RatAdd(x, RatNeg(y))

RatMul(x, y) ==
    LET g1 == GCD(Abs(x.n), y.d)
        g2 == GCD(Abs(y.n), x.d)
    IN  Rat((x.n \div g1) * (y.n \div g2), (x.d \div g2) * (y.d \div g1))

\* x / y for y # 0.
RatDiv(x, y) ==
    RatMul(x, IF y.n < 0 THEN [n |-> -y.d, d |-> -y.n] ELSE [n |-> y.d, d |-> y.n])

RatLess(x, y) == x.n * y.d < y.n * x.d

RatLeq(x, y) == x.n * y.d <= y.n * x.d

RatPow(x, k) == [n |-> IntPow(x.n, k), d |-> IntPow(x.d, k)]

RECURSIVE RatSum(_)
RatSum(s) == IF s = <<>> THEN RatInt(0) ELSE RatAdd(Head(s), RatSum(Tail(s)))

(***************************************************************************)
(* Real numbers as the engine produces them.                               *)
(*   f = "rat"  : q                      (0.0, max_drawdown, given metrics) *)
(*   f = "pow"  : sg * b^e - 1           (annual return)                    *)
(*   f = "root" : sg * sqrt(252 * q)     (Sharpe, Sortino)                  *)
(*   f = "quot" : a / q, a of form pow   (Calmar)                           *)
(* k is "real", "complex" (Python's result of a negative float raised to a *)
(* non-integral power) or "raise" (the float power raised OverflowError).   *)
(***************************************************************************)
Real(q) == [k |-> "real", f |-> "rat", q |-> q]

Zero == Real(RatInt(0))

IsReal(x) == x.k = "real"

\* The sign of a real number.
SignOf(x) ==
    CASE x.f = "rat"  -> Sign(x.q.n)
      [] x.f = "root" -> x.sg
      [] x.f = "pow"  -> IF x.sg = -1 \/ x.b.n < x.b.d THEN -1
                         ELSE IF x.b.n = x.b.d THEN 0 ELSE 1
      [] x.f = "quot" -> IF x.a.sg = -1 \/ x.a.b.n < x.a.b.d THEN -1
                         ELSE IF x.a.b.n = x.a.b.d THEN 0 ELSE 1

\* bx^ex < by^ey for rationals bx, by >= 0 and ex, ey > 0: both sides are
\* raised to the same positive power, which makes the exponents integers.
MagLess(bx, ex, by, ey) ==
    LET p == ex.n * ey.d
        r == ey.n * ex.d
        g == GCD(p, r)
    IN  RatLess(RatPow(bx, p \div g), RatPow(by, r \div g))

\* sg*b^e of x is less than that of y, x and y of form pow.
KeyLess(x, y) ==
    LET negx == x.sg = -1 /\ x.b.n > 0
        negy == y.sg = -1 /\ y.b.n > 0
    IN  IF negx /\ ~negy THEN TRUE
        ELSE IF ~negx /\ negy THEN FALSE
        ELSE IF negx THEN MagLess(y.b, y.e, x.b, x.e)
        ELSE MagLess(x.b, x.e, y.b, y.e)

\* The largest integer k <= e, capped so that the powers stay small.
BoundExp(e) == Min(e.n \div e.d, 10)

\* Rational bounds lo <= 1 - sg*b^e <= hi for sg*b^e < 1 (none above when
\* b > 1); lox and hix tell that the bound itself is not attained.
OneMinusBounds(a) ==
    LET t   == RatPow(a.b, BoundExp(a.e))
        one == RatInt(1)
    IN  IF a.b.n = 0
        THEN [lo |-> one, hi |-> one, lox |-> FALSE, hix |-> FALSE, bounded |-> TRUE]
        ELSE IF a.b.n = a.b.d
        THEN [lo |-> RatInt(1 - a.sg), hi |-> RatInt(1 - a.sg),
              lox |-> FALSE, hix |-> FALSE, bounded |-> TRUE]
        ELSE IF a.b.n < a.b.d
        THEN IF a.sg = 1
             THEN [lo |-> RatSub(one, t), hi |-> one,
                   lox |-> FALSE, hix |-> TRUE, bounded |-> TRUE]
             ELSE [lo |-> one, hi |-> RatAdd(one, t),
                   lox |-> TRUE, hix |-> FALSE, bounded |-> TRUE]
        ELSE [lo |-> RatAdd(one, t), hi |-> one,
              lox |-> FALSE, hix |-> FALSE, bounded |-> FALSE]

\* acc * rho^i >= target for some i in 0..j.
RECURSIVE Reaches(_, _, _, _)
Reaches(acc, rho, target, j) ==
    IF RatLeq(target, acc) THEN TRUE
    ELSE IF j = 0 THEN FALSE
    ELSE Reaches(RatMul(acc, rho), rho, target, j - 1)

\* The key of hi exceeds the key of lo by more than the factor hi.q/lo.q:
\* keyhi/keylo = rho^(g/(lo.e.d*hi.e.d)) with rho > 1.
KeyOutgrows(lo, hi) ==
    LET p   == lo.a.e.n * hi.a.e.d
        r   == hi.a.e.n * lo.a.e.d
        g   == GCD(p, r)
        rho == RatDiv(RatPow(hi.a.b, r \div g), RatPow(lo.a.b, p \div g))
        j   == g \div (lo.a.e.d * hi.a.e.d)
    IN  j >= 1 /\ Reaches(rho, rho, RatDiv(hi.q, lo.q), Min(j, 8) - 1)

\* x < y for two positive Calmar quotients (keyx - 1)/qx and (keyy - 1)/qy,
\* given xa: keyx < keyy, ya: keyy < keyx, xq: qx < qy, yq: qy < qx.
PosQuotOrder(x, y, xa, ya, xq, yq) ==
    IF ~xq /\ ~yq THEN xa
    ELSE IF ~xa /\ ~ya THEN yq
    ELSE IF xa /\ yq THEN TRUE
    ELSE IF ya /\ xq THEN FALSE
    ELSE IF xa THEN (IF KeyOutgrows(x, y) THEN TRUE ELSE Undecided)
    ELSE IF KeyOutgrows(y, x) THEN FALSE ELSE Undecided

PosQuotLess(x, y) ==
    PosQuotOrder(x, y, KeyLess(x.a, y.a), KeyLess(y.a, x.a),
                 RatLess(x.q, y.q), RatLess(y.q, x.q))

\* A negative Calmar ratio is -u/q: u and q of a rational and of a quotient.
UOf(x) ==
    IF x.f = "rat"
    THEN [lo |-> RatNeg(x.q), hi |-> RatNeg(x.q),
          lox |-> FALSE, hix |-> FALSE, bounded |-> TRUE]
    ELSE OneMinusBounds(x.a)

QOf(x) == IF x.f = "rat" THEN RatInt(1) ELSE x.q

\* u/qu > v/qv for every u >= lo and v <= hi (> lo, < hi when not attained).
AboveProducts(open, hq, lq) == RatLess(hq, lq) \/ (open /\ hq = lq)

Above(lo, lox, qu, hi, hix, qv) ==
    AboveProducts(lox \/ hix, RatMul(hi, qu), RatMul(lo, qv))

\* x < y for two negative Calmar ratios, ux/qx > uy/qy, given the bounds ux
\* and uy and, for two quotients, xa: keyx < keyy, ya, xq: qx < qy, yq.
NegQuotOrder(x, y, xa, ya, xq, yq, ux, uy) ==
    IF x.f = "quot" /\ y.f = "quot" /\ ~xq /\ ~yq THEN xa
    ELSE IF x.f = "quot" /\ y.f = "quot" /\ ~xa /\ ~ya THEN xq
    ELSE IF x.f = "quot" /\ y.f = "quot" /\ xa /\ xq THEN TRUE
    ELSE IF x.f = "quot" /\ y.f = "quot" /\ ya /\ yq THEN FALSE
    ELSE IF uy.bounded /\ Above(ux.lo, ux.lox, QOf(x), uy.hi, uy.hix, QOf(y))
    THEN TRUE
    ELSE IF ux.bounded /\ Above(uy.lo, uy.lox, QOf(y), ux.hi, ux.hix, QOf(x))
    THEN FALSE
    ELSE Undecided

NegQuotLess(x, y) ==
    NegQuotOrder(x, y, KeyLess(x.a, y.a), KeyLess(y.a, x.a),
                 RatLess(x.q, y.q), RatLess(y.q, x.q), UOf(x), UOf(y))

\* x < y for two annual returns of the same non-zero sign, one of them the
\* rational -1 (a power absorbed by the subtraction of 1).
MixedPowLess(x, y) ==
    IF x.f = "rat" /\ x.q = RatInt(-1) THEN y.sg = 1
    ELSE IF y.f = "rat" /\ y.q = RatInt(-1) THEN x.sg = -1
    ELSE Undecided

\* x < y for two reals of signs sx and sy, not both of form rat.
LessBySign(x, y, sx, sy, fs) ==
    IF sx # sy THEN sx < sy
    ELSE IF sx = 0 THEN FALSE
    ELSE IF fs = {"root"} THEN RatLess(IF sx = 1 THEN x.q ELSE y.q,
                                       IF sx = 1 THEN y.q ELSE x.q)
    ELSE IF fs = {"pow"} THEN KeyLess(x, y)
    ELSE IF fs = {"pow", "rat"} THEN MixedPowLess(x, y)
    ELSE IF fs = {"quot"} /\ sx = 1 THEN PosQuotLess(x, y)
    ELSE IF fs \subseteq {"quot", "rat"} /\ sx = -1 THEN NegQuotLess(x, y)
    ELSE Undecided

\* x < y as Python compares two floats.
Less(x, y) ==
    IF x.f = "rat" /\ y.f = "rat" THEN RatLess(x.q, y.q)
    ELSE LessBySign(x, y, SignOf(x), SignOf(y), {x.f, y.f})

(***************************************************************************)
(* MetricEngine.                                                           *)
(***************************************************************************)
TradingDays == 252

\* Doubles overflow at 2^FloatMaxExp.
FloatMaxExp == 1024

RECURSIVE FloorLog2(_, _)
FloorLog2(n, d) == IF n < 2 * d THEN 0 ELSE 1 + FloorLog2(n, 2 * d)

\* b^e does not fit a double (b >= 0, e > 0).
Overflows(b, e) ==
    IF b.n <= b.d THEN FALSE
    ELSE LET k == FloorLog2(b.n, b.d)
         IN  IF k * e.n >= FloatMaxExp * e.d THEN TRUE
             ELSE IF (k + 1) * e.n <= FloatMaxExp * e.d THEN FALSE
             ELSE IF b.d = 1 /\ b.n = IntPow(2, k) THEN FALSE
             ELSE Undecided

\* A double has DoubleMantissa significant bits.
DoubleMantissa == 53

\* The largest j with d^j <= 2^29, for d >= 2 (acc = d^j).
RECURSIVE FitPower(_, _, _)
FitPower(d, acc, j) ==
    IF acc > IntPow(2, 29) \div d THEN j ELSE FitPower(d, acc * d, j + 1)

\* b^e <= 2^(-bits) decided on the j-th power of b, whose logarithm is known
\* j times as finely.
BelowFine(b, e, bits, j) ==
    LET k == FloorLog2(IntPow(b.d, j), IntPow(b.n, j))
    IN  IF k * e.n >= bits * e.d * j THEN TRUE
        ELSE IF (k + 1) * e.n <= bits * e.d * j THEN FALSE
        ELSE Undecided

\* b^e <= 2^(-bits) (b >= 0, e > 0).
Below(b, e, bits) ==
    IF b.n = 0 THEN TRUE
    ELSE IF b.n >= b.d THEN FALSE
    ELSE LET k == FloorLog2(b.d, b.n)
         IN  IF k * e.n >= bits * e.d THEN TRUE
             ELSE IF (k + 1) * e.n <= bits * e.d THEN FALSE
             ELSE IF b.n = 1 /\ b.d = IntPow(2, k) THEN FALSE
             ELSE BelowFine(b, e, bits, FitPower(b.d, b.d, 1))

\* Python's  base ** exponent - 1  on floats, exponent > 0.  A negative base
\* with a non-integral exponent gives a complex number; a power too large
\* for a double raises OverflowError; a power of at most half an ulp of 1
\* is absorbed by the subtraction, which then gives exactly -1.0.
PowMinusOne(b, sg, exponent, integral) ==
    IF sg = -1 /\ ~integral
    THEN [k |-> "complex", f |-> "pow", sg |-> 1, b |-> b, e |-> exponent]
    ELSE IF Overflows(b, exponent)
    THEN [k |-> "raise", f |-> "pow", sg |-> 1, b |-> b, e |-> exponent]
    ELSE IF Below(b, exponent, IF sg = 1 THEN DoubleMantissa + 1 ELSE DoubleMantissa)
    THEN Real(RatInt(-1))
    ELSE [k |-> "real", f |-> "pow", sg |-> sg, b |-> b, e |-> exponent]

FloatPowMinusOne(base, exponent) ==
    PowMinusOne(Rat(Abs(base.n), base.d),
                IF base.n < 0 /\ (exponent.d # 1 \/ exponent.n % 2 = 1) THEN -1 ELSE 1,
                exponent, exponent.d = 1)

\* years = days / 252.0 is positive here, as days > 0.
calculate_annual_return(values, days) ==
    IF Len(values) < 2 \/ days <= 0 THEN Zero
    ELSE IF values[1] <= 0 THEN Zero
    ELSE FloatPowMinusOne(
             RatAdd(RatInt(1), Rat(values[Len(values)] - values[1], values[1])),
             RatDiv(RatInt(1), Rat(days, TradingDays)))

\* Variant: the difference of a daily return is taken the other way round.
calculate_returns_backward(values) ==
    IF Len(values) < 2 THEN <<>>
    ELSE [i \in 1..(Len(values) - 1) |->
            IF values[i] > 0 THEN Rat(values[i] - values[i + 1], values[i])
            ELSE RatInt(0)]

calculate_returns(values) ==
    IF Len(values) < 2 THEN <<>>
    ELSE [i \in 1..(Len(values) - 1) |->
            IF values[i] > 0 THEN Rat(values[i + 1] - values[i], values[i])
            ELSE RatInt(0)]

\* risk_free_rate keeps its default 0.0 in every call, so daily_rf is 0.
daily_rf == RatInt(0)

\* sum((r - centre) ** 2 for r in returns) / n
MeanSquare(returns, centre, n) ==
    RatDiv(RatSum([i \in DOMAIN returns |->
                     RatMul(RatSub(returns[i], centre), RatSub(returns[i], centre))]),
           RatInt(n))

\* (excess / sqrt(variance)) * sqrt(TradingDays), or 0.0 when std_dev = 0.
Annualised(excess, variance) ==
    IF variance.n = 0 THEN Zero
    ELSE [k |-> "real", f |-> "root", sg |-> Sign(excess.n),
          q |-> RatDiv(RatMul(excess, excess), variance)]

mean(returns) == RatDiv(RatSum(returns), RatInt(Len(returns)))

SharpeOf(returns, mean_return) ==
    Annualised(RatSub(mean_return, daily_rf),
               MeanSquare(returns, mean_return, Len(returns)))

calculate_sharpe_ratio(values) ==
    IF Len(values) < 2 THEN Zero
    ELSE SharpeOf(calculate_returns(values), mean(calculate_returns(values)))

\* Variant: the running peak is never raised above the first value.
RECURSIVE DrawdownLoop_fixed_peak(_, _, _, _)
DrawdownLoop_fixed_peak(values, i, max_value, max_dd) ==
    IF i > Len(values) THEN max_dd
    ELSE LET value    == values[i]
             drawdown == Rat(max_value - value, max_value)
         IN  DrawdownLoop_fixed_peak(values, i + 1, max_value,
                                     IF max_value > 0 /\ RatLess(max_dd, drawdown)
                                     THEN drawdown ELSE max_dd)

\* Variant: the drawdown is the value as a fraction of the peak, not the
\* fraction lost from the peak.
RECURSIVE DrawdownLoop_ratio(_, _, _, _)
DrawdownLoop_ratio(values, i, max_value, max_dd) ==
    IF i > Len(values) THEN max_dd
    ELSE LET value    == values[i]
             peak     == IF value > max_value THEN value ELSE max_value
             drawdown == Rat(value, peak)
         IN  DrawdownLoop_ratio(values, i + 1, peak,
                                IF peak > 0 /\ RatLess(max_dd, drawdown)
                                THEN drawdown ELSE max_dd)

\* The loop of calculate_max_drawdown from position i on.
RECURSIVE DrawdownLoop(_, _, _, _)
DrawdownLoop(values, i, max_value, max_dd) ==
    IF i > Len(values) THEN max_dd
    ELSE LET value    == values[i]
             peak     == IF value > max_value THEN value ELSE max_value
             drawdown == Rat(peak - value, peak)
         IN  DrawdownLoop(values, i + 1, peak,
                          IF peak > 0 /\ RatLess(max_dd, drawdown)
                          THEN drawdown ELSE max_dd)

calculate_max_drawdown(values) ==
    IF values = <<>> THEN Zero
    ELSE Real(DrawdownLoop(values, 1, values[1], RatInt(0)))

\* Variant: the conventional downside variance, over the downside returns.
SortinoOf_downside_count(returns, downside_returns) ==
    IF downside_returns = <<>> THEN Zero
    ELSE Annualised(RatSub(mean(returns), daily_rf),
                    MeanSquare(downside_returns, daily_rf, Len(downside_returns)))

SortinoOf(returns, downside_returns) ==
    IF downside_returns = <<>> THEN Zero
    ELSE Annualised(RatSub(mean(returns), daily_rf),
                    MeanSquare(downside_returns, daily_rf, Len(returns)))

downside(returns) == SelectSeq(returns, LAMBDA r : RatLess(r, daily_rf))

calculate_sortino_ratio(values) ==
    IF Len(values) < 2 THEN Zero
    ELSE SortinoOf(calculate_returns(values), downside(calculate_returns(values)))

\* annual_return / max_dd, or 0.0 when max_dd = 0.
CalmarOf(annual_return, max_dd) ==
    IF annual_return.k = "raise" THEN annual_return
    ELSE IF max_dd.q.n = 0 THEN Zero
    ELSE IF annual_return.f = "rat" THEN Real(RatDiv(annual_return.q, max_dd.q))
    ELSE [k |-> annual_return.k, f |-> "quot", a |-> annual_return, q |-> max_dd.q]

calculate_calmar_ratio(values, days) ==
    CalmarOf(calculate_annual_return(values, days), calculate_max_drawdown(values))

MetricNames == <<"annual_return", "sharpe_ratio", "max_drawdown",
                 "sortino_ratio", "calmar_ratio">>

MetricSet == {MetricNames[i] : i \in DOMAIN MetricNames}

calculate_all_metrics(values, days) ==
    [m \in MetricSet |->
        CASE m = "annual_return" -> calculate_annual_return(values, days)
          [] m = "sharpe_ratio"  -> calculate_sharpe_ratio(values)
          [] m = "max_drawdown"  -> calculate_max_drawdown(values)
          [] m = "sortino_ratio" -> calculate_sortino_ratio(values)
          [] m = "calmar_ratio"  -> calculate_calmar_ratio(values, days)]

(***************************************************************************)
(* Ranker.  A mapping (a Python dict) is a sequence of entries in          *)
(* insertion order; model_metrics is a sequence of [name, metrics], and    *)
(* metrics a function from the metric names present to their values.       *)
(***************************************************************************)
\* Variant: weights that do not add up to 1.
METRIC_WEIGHTS_unnormalised ==
    [annual_return |-> Rat(25, 100), sharpe_ratio |-> Rat(25, 100),
     max_drawdown |-> Rat(20, 100), sortino_ratio |-> Rat(15, 100),
     calmar_ratio |-> Rat(25, 100)]

METRIC_WEIGHTS ==
    [annual_return |-> Rat(25, 100), sharpe_ratio |-> Rat(25, 100),
     max_drawdown |-> Rat(20, 100), sortino_ratio |-> Rat(15, 100),
     calmar_ratio |-> Rat(15, 100)]

\* metrics.get(metric, 0.0)
Get(metrics, metric) ==
    IF metric \in DOMAIN metrics THEN metrics[metric] ELSE Zero

\* Variant: every metric is sorted descending, max_drawdown included.
SortsBefore_descending(metric, x, y) == Less(y, x)

\* Variant: the reverse flag is set for max_drawdown instead of the others.
SortsBefore_inverted(metric, x, y) ==
    Less(IF metric = "max_drawdown" THEN y ELSE x,
         IF metric = "max_drawdown" THEN x ELSE y)

\* x is sorted strictly before y: ascending for max_drawdown, reverse=True
\* for the other metrics.
SortsBefore(metric, x, y) ==
    Less(IF metric = "max_drawdown" THEN x ELSE y,
         IF metric = "max_drawdown" THEN y ELSE x)

InsertAt(sorted, entry, pos) ==
    SubSeq(sorted, 1, pos - 1) \o <<entry>> \o SubSeq(sorted, pos, Len(sorted))

\* Variant: a sort that is not stable, an entry goes before the entries of
\* equal value.
InsertSorted_before_equal(sorted, entry, metric) ==
    InsertAt(sorted, entry,
             1 + Cardinality({i \in DOMAIN sorted :
                                SortsBefore(metric, sorted[i].value, entry.value)}))

\* list.sort is stable, also with reverse=True: an entry goes behind every
\* entry it does not sort strictly before.
InsertSorted(sorted, entry, metric) ==
    InsertAt(sorted, entry,
             1 + Cardinality({i \in DOMAIN sorted :
                                ~SortsBefore(metric, entry.value, sorted[i].value)}))

RECURSIVE SortEntries(_, _)
SortEntries(entries, metric) ==
    IF entries = <<>> THEN <<>>
    ELSE InsertSorted(SortEntries(SubSeq(entries, 1, Len(entries) - 1), metric),
                      entries[Len(entries)], metric)

\* The sorted metric_values list of one metric.
metric_values(model_metrics, metric) ==
    SortEntries([i \in DOMAIN model_metrics |->
                    [name  |-> model_metrics[i].name,
                     value |-> Get(model_metrics[i].metrics, metric)]],
                metric)

\* Variant: enumerate without start=1, the ranks begin at 0.
PositionOf_from_zero(sorted, name) ==
    (CHOOSE r \in DOMAIN sorted : sorted[r].name = name) - 1

\* The rank enumerate(metric_values, start=1) gives a name.
PositionOf(sorted, name) == CHOOSE r \in DOMAIN sorted : sorted[r].name = name

\* metric_ranks[name][metric], indexed like model_metrics.
metric_ranks(model_metrics) ==
    [i \in DOMAIN model_metrics |->
        [m \in MetricSet |->
            PositionOf(metric_values(model_metrics, m), model_metrics[i].name)]]

\* Sorting floats with a complex number among them raises TypeError as soon
\* as two keys are compared, that is with two models or more.
rank_models_raises(model_metrics) ==
    /\ Len(model_metrics) >= 2
    /\ \E i \in DOMAIN model_metrics : \E m \in MetricSet :
          Get(model_metrics[i].metrics, m).k = "complex"

\* sum(metric_ranks[model_name][metric] * weight ...) of one model.
weighted_rank(ranks) ==
    RatSum([j \in DOMAIN MetricNames |->
              RatMul(RatInt(ranks[MetricNames[j]]), METRIC_WEIGHTS[MetricNames[j]])])

\* average_ranks, in the order of model_names.
composite(model_metrics, ranks) ==
    [i \in DOMAIN model_metrics |->
        [name |-> model_metrics[i].name, rank |-> weighted_rank(ranks[i])]]

rank_models(model_metrics) ==
    IF model_metrics = <<>> THEN <<>>
    ELSE composite(model_metrics, metric_ranks(model_metrics))

(***************************************************************************)
(* Selector.  backtest_data is a sequence of [name, points], points a      *)
(* sequence of [date, value]; dates are day numbers.                       *)
(***************************************************************************)
\* Variant: the cutoff date itself is left out of the window.
filtered_points_exclusive(data_points, cutoff_date, target) ==
    SelectSeq(data_points,
              LAMBDA p : cutoff_date < p.date /\ p.date <= target)

filtered_points(data_points, cutoff_date, target) ==
    SelectSeq(data_points,
              LAMBDA p : cutoff_date <= p.date /\ p.date <= target)

\* Variant: the 2-point minimum is not applied, every model is scored.
window_models_unfiltered(data, target, lookback_days) ==
    [i \in DOMAIN data |->
        [name |-> data[i].name,
         values |-> [j \in DOMAIN filtered_points(data[i].points,
                                                  target - lookback_days, target) |->
                       filtered_points(data[i].points,
                                       target - lookback_days, target)[j].value],
         actual_days |-> Len(filtered_points(data[i].points,
                                             target - lookback_days, target))]]

\* Variant: the metrics are annualized over the nominal lookback.
RECURSIVE window_models_nominal_days(_, _, _)
window_models_nominal_days(data, target, lookback_days) ==
    IF data = <<>> THEN <<>>
    ELSE LET rest   == window_models_nominal_days(SubSeq(data, 1, Len(data) - 1),
                                                  target, lookback_days)
             model  == data[Len(data)]
             points == filtered_points(model.points, target - lookback_days,
                                       target)
         IN  IF points = <<>> \/ Len(points) < 2 THEN rest
             ELSE Append(rest, [name |-> model.name,
                                values |-> [i \in DOMAIN points |-> points[i].value],
                                actual_days |-> lookback_days])

\* The model_metrics of one lookback window, before the metrics are taken:
\* the models with at least 2 points in the window, with their values.
RECURSIVE window_models(_, _, _)
window_models(data, target, lookback_days) ==
    IF data = <<>> THEN <<>>
    ELSE LET rest   == window_models(SubSeq(data, 1, Len(data) - 1),
                                     target, lookback_days)
             model  == data[Len(data)]
             points == filtered_points(model.points, target - lookback_days,
                                       target)
         IN  IF points = <<>> \/ Len(points) < 2 THEN rest
             ELSE Append(rest, [name |-> model.name,
                                values |-> [i \in DOMAIN points |-> points[i].value],
                                actual_days |-> Len(points)])

window_metrics(models) ==
    [i \in DOMAIN models |->
        [name    |-> models[i].name,
         metrics |-> calculate_all_metrics(models[i].values, models[i].actual_days)]]

\* calculate_all_metrics raises for some model of the window.
metrics_raise(models) ==
    \E i \in DOMAIN models :
        calculate_annual_return(models[i].values, models[i].actual_days).k = "raise"

\* One pass of the loop over lookback_periods on the qualifying models and
\* their metrics: skipped without models, left by an exception, or ranked.
pass_of(lookback_days, models, model_metrics) ==
    IF models = <<>>
    THEN [lookback_days |-> lookback_days, models |-> models,
          outcome |-> "skip", metric_ranks |-> <<>>, ranks |-> <<>>]
    ELSE IF metrics_raise(models) \/ rank_models_raises(model_metrics)
    THEN [lookback_days |-> lookback_days, models |-> models,
          outcome |-> "raise", metric_ranks |-> <<>>, ranks |-> <<>>]
    ELSE [lookback_days |-> lookback_days, models |-> models,
          outcome |-> "rank", metric_ranks |-> metric_ranks(model_metrics),
          ranks |-> rank_models(model_metrics)]

models_pass(data, target, lookback_days, models) ==
    pass_of(lookback_days, models, window_metrics(models))

window_pass(data, target, lookback_days) ==
    models_pass(data, target, lookback_days,
                window_models(data, target, lookback_days))

\* final_ranks is a defaultdict(float): an entry is created, at the end, the
\* first time a name is added to.
Names(ranks) == {ranks[i].name : i \in DOMAIN ranks}

RankOf(ranks, name) ==
    LET i == CHOOSE j \in DOMAIN ranks : ranks[j].name = name
    IN  ranks[i].rank

RECURSIVE add_ranks(_, _)
add_ranks(final_ranks, ranks) ==
    IF ranks = <<>> THEN final_ranks
    ELSE LET e == Head(ranks)
             next ==
                 IF e.name \in Names(final_ranks)
                 THEN [i \in DOMAIN final_ranks |->
                         IF final_ranks[i].name = e.name
                         THEN [name |-> e.name,
                               rank |-> RatAdd(final_ranks[i].rank, e.rank)]
                         ELSE final_ranks[i]]
                 ELSE Append(final_ranks,
                             [name |-> e.name, rank |-> RatAdd(RatInt(0), e.rank)])
         IN  add_ranks(next, Tail(ranks))

\* Variant: final_ranks holds the ranks of the last ranking only.
sum_ranks_last(ranks_list) ==
    IF ranks_list = <<>> THEN <<>>
    ELSE add_ranks(<<>>, ranks_list[Len(ranks_list)])

RECURSIVE sum_ranks(_)
sum_ranks(ranks_list) ==
    IF ranks_list = <<>> THEN <<>>
    ELSE add_ranks(sum_ranks(SubSeq(ranks_list, 1, Len(ranks_list) - 1)),
                   ranks_list[Len(ranks_list)])

\* final_ranks[model_name] /= len(all_ranks)
divide_ranks(final_ranks, n) ==
    [i \in DOMAIN final_ranks |->
        [name |-> final_ranks[i].name,
         rank |-> RatDiv(final_ranks[i].rank, RatInt(n))]]

average_ranks(ranks_list) == divide_ranks(sum_ranks(ranks_list), Len(ranks_list))

\* Variant: the aggregate ranks are sorted descending.
RankLess_descending(x, y) == RatLess(y.rank, x.rank)

\* sorted(final_ranks.items(), key=lambda x: x[1]): stable, ascending.
RankLess(x, y) == RatLess(x.rank, y.rank)

InsertByRank(sorted, entry) ==
    InsertAt(sorted, entry,
             1 + Cardinality({i \in DOMAIN sorted : ~RankLess(entry, sorted[i])}))

RECURSIVE sorted_models(_)
sorted_models(final_ranks) ==
    IF final_ranks = <<>> THEN <<>>
    ELSE InsertByRank(sorted_models(SubSeq(final_ranks, 1, Len(final_ranks) - 1)),
                      final_ranks[Len(final_ranks)])

CashResult == [selected_model |-> "cash", confidence |-> RatInt(0), all_ranks |-> <<>>]

\* Variant: the gap is taken the other way round.
best_of_reversed_gap(final_ranks, sorted) ==
    [selected_model |-> sorted[1].name,
     confidence |-> IF Len(sorted) > 1
                    THEN RatSub(sorted[1].rank, sorted[2].rank)
                    ELSE RatInt(0),
     all_ranks |-> final_ranks]

\* Lines 333-345: the best model and the gap to the second best.
best_of(final_ranks, sorted) ==
    [selected_model |-> sorted[1].name,
     confidence |-> IF Len(sorted) > 1
                    THEN RatSub(sorted[2].rank, sorted[1].rank)
                    ELSE RatInt(0),
     all_ranks |-> final_ranks]

ranked_selection(final_ranks) ==
    IF final_ranks = <<>> THEN CashResult
    ELSE best_of(final_ranks, sorted_models(final_ranks))

\* Lines 316-345: what select_best_model returns for the all_ranks collected.
selection(ranks_list) ==
    IF ranks_list = <<>> THEN CashResult
    ELSE ranked_selection(average_ranks(ranks_list))

\* Lines 285-314: all_ranks after the loop over the lookback periods, none
\* of whose passes raises.
append_pass(ranks_list, w) ==
    IF w.outcome = "rank" THEN Append(ranks_list, w.ranks) ELSE ranks_list

RECURSIVE collect_ranks(_, _, _)
collect_ranks(data, target, periods) ==
    IF periods = <<>> THEN <<>>
    ELSE append_pass(collect_ranks(data, target, SubSeq(periods, 1, Len(periods) - 1)),
                     window_pass(data, target, periods[Len(periods)]))

select_best_model(data, target, periods) ==
    selection(collect_ranks(data, target, periods))

(***************************************************************************)
(* The engine as a state machine.  One call of select_best_model runs from *)
(* pc = "loop" through the lookback windows to "done" or "raised"; a call   *)
(* of rank_models or of calculate_all_metrics on given arguments is one    *)
(* step.                                                                   *)
(***************************************************************************)
VARIABLES
    pc,                \* position of the call
    backtest_data,     \* argument of select_best_model
    target_date,       \* argument of select_best_model
    lookback_periods,  \* self.lookback_periods
    li,                \* index of the next lookback period
    all_ranks,         \* the list all_ranks of select_best_model
    windows,           \* what each pass of the loop computed
    result,            \* value returned by select_best_model
    arg_metrics,       \* argument of rank_models
    ret_ranks,         \* value returned by rank_models
    arg_values,        \* argument of calculate_all_metrics
    arg_days,          \* argument of calculate_all_metrics
    ret_metrics,       \* value returned by calculate_all_metrics
    db_models,         \* rows of the table of TradingModel: their ids
    db_metrics,        \* rows of the table of PerformanceMetric
    db_backtest,       \* rows of the table of BacktestData
    request,           \* the HTTP request being served
    response,          \* the HTTP response to it
    db_snapshots,      \* rows of the table of PortfolioSnapshot
    db_holdings,       \* rows of the table of PortfolioHolding
    call,              \* the call of a parser or of the ingestion CLI
    ret                \* what that call returned or raised

vars == <<pc, backtest_data, target_date, lookback_periods, li, all_ranks,
          windows, result, arg_metrics, ret_ranks, arg_values, arg_days,
          ret_metrics, db_models, db_metrics, db_backtest, request, response,
          db_snapshots, db_holdings, call, ret>>

selectVars == <<backtest_data, target_date, lookback_periods, li, all_ranks,
                windows, result>>

rankVars == <<arg_metrics, ret_ranks>>

metricVars == <<arg_values, arg_days, ret_metrics>>

apiVars == <<db_models, db_metrics, db_backtest, request, response>>

ingestVars == <<db_snapshots, db_holdings, call, ret>>

None == <<>>

\* No request is served: the state of the REST layer in a call of the engine.
ApiIdle ==
    /\ db_models = {}
    /\ db_metrics = {}
    /\ db_backtest = {}
    /\ request = None
    /\ response = None

\* No file is parsed or ingested.
IngestIdle ==
    /\ db_snapshots = {}
    /\ db_holdings = {}
    /\ call = None
    /\ ret = None

(***************************************************************************)
(* Inputs.                                                                 *)
(***************************************************************************)
Dates == 0..MaxDate

ModelNames == <<"A", "B">>

\* The value of a series at position p (0, 1, ...) after its first date.
Shapes == {"up", "down", "zig", "dive"}

ShapeValue(shape, p) ==
    CASE shape = "up"   -> IF p = 0 THEN 1 ELSE 2
      [] shape = "down" -> IF p = 0 THEN 2 ELSE 1
      [] shape = "zig"  -> IF p % 2 = 0 THEN 1 ELSE 2
      [] shape = "dive" -> IF p = 0 THEN 2 ELSE IF p = 1 THEN 1 ELSE -1
      [] shape = "surge" -> IF p = 0 THEN 1 ELSE 512

\* A value series of the store: one point a day from lo to hi, ascending.
Series(shape, lo, hi) ==
    [i \in 1..(hi - lo + 1) |-> [date |-> lo + i - 1, value |-> ShapeValue(shape, i - 1)]]

SeriesSet ==
    {<<>>} \cup {Series(sh, lo, hi) : sh \in Shapes, lo \in Dates, hi \in Dates}

\* backtest_data: a dict of the first n model names.
BacktestData(n, f) == [i \in 1..n |-> [name |-> ModelNames[i], points |-> f[i]]]

LookbackDays == {1, MaxDate}

\* self.lookback_periods: one or two different periods, in either order.
LookbackSet ==
    {<<a>> : a \in LookbackDays} \cup
    {p \in LookbackDays \X LookbackDays : p[1] # p[2]}

TargetDates == {MaxDate - 1, MaxDate}

\* Arguments of rank_models: up to three models, each with a mapping from
\* some of the metric names to a value.
RankNames == <<"A", "B", "C">>

RankValues == {-1, 1}

KeySets == {MetricSet, {"annual_return", "max_drawdown"}, {}}

MetricMaps == UNION {[D -> {Real(RatInt(v)) : v \in RankValues}] : D \in KeySets}

ModelMetrics(n, f) == [i \in 1..n |-> [name |-> RankNames[i], metrics |-> f[i]]]

\* Arguments of calculate_all_metrics.
MetricValues == {-1, 0, 1, 2, 32}

ValuesSet == UNION {[1..n -> MetricValues] : n \in 0..MaxLen}

DaysSet == -1..MaxDays

Init ==
    /\ pc = "loop"
    /\ \E n \in 0..Len(ModelNames) : \E f \in [1..n -> SeriesSet] :
          backtest_data = BacktestData(n, f)
    /\ target_date \in TargetDates
    /\ lookback_periods \in LookbackSet
    /\ li = 1
    /\ all_ranks = <<>>
    /\ windows = <<>>
    /\ result = None
    /\ arg_metrics = <<>>
    /\ ret_ranks = None
    /\ arg_values = <<>>
    /\ arg_days = 0
    /\ ret_metrics = None
    /\ ApiIdle
    /\ IngestIdle

(***************************************************************************)
(* select_best_model.                                                      *)
(***************************************************************************)
InLoop == pc = "loop" /\ li <= Len(lookback_periods)

\* Variant: a window without models still appends its (empty) ranks.
Skip_counted(w) ==
    /\ w.outcome = "skip"
    /\ windows' = Append(windows, w)
    /\ all_ranks' = Append(all_ranks, w.ranks)
    /\ li' = li + 1
    /\ UNCHANGED <<pc, backtest_data, target_date, lookback_periods, result>>
    /\ UNCHANGED <<rankVars, metricVars, apiVars, ingestVars>>

\* One pass of the loop with the outcome w.
\* Lines 309-310: no model qualified, the window is skipped.
Skip(w) ==
    /\ w.outcome = "skip"
    /\ windows' = Append(windows, w)
    /\ li' = li + 1
    /\ UNCHANGED <<pc, backtest_data, target_date, lookback_periods, all_ranks, result>>
    /\ UNCHANGED <<rankVars, metricVars, apiVars, ingestVars>>

SkipWindow ==
    /\ InLoop
    /\ Skip(window_pass(backtest_data, target_date, lookback_periods[li]))

\* Lines 287-314: the window is scored and ranked.
Rank(w) ==
    /\ w.outcome = "rank"
    /\ windows' = Append(windows, w)
    /\ all_ranks' = Append(all_ranks, w.ranks)
    /\ li' = li + 1
    /\ UNCHANGED <<pc, backtest_data, target_date, lookback_periods, result>>
    /\ UNCHANGED <<rankVars, metricVars, apiVars, ingestVars>>

RankWindow ==
    /\ InLoop
    /\ Rank(window_pass(backtest_data, target_date, lookback_periods[li]))

\* An exception of the metric computation or of the sort leaves the call.
Raise(w) ==
    /\ w.outcome = "raise"
    /\ windows' = Append(windows, w)
    /\ pc' = "raised"
    /\ UNCHANGED <<backtest_data, target_date, lookback_periods, li, all_ranks, result>>
    /\ UNCHANGED <<rankVars, metricVars, apiVars, ingestVars>>

WindowRaises ==
    /\ InLoop
    /\ Raise(window_pass(backtest_data, target_date, lookback_periods[li]))

\* Lines 316-318.
ReturnCash ==
    /\ pc = "loop"
    /\ li > Len(lookback_periods)
    /\ all_ranks = <<>>
    /\ result' = CashResult
    /\ pc' = "done"
    /\ UNCHANGED <<backtest_data, target_date, lookback_periods, li, all_ranks, windows>>
    /\ UNCHANGED <<rankVars, metricVars, apiVars, ingestVars>>

\* Lines 320-345.
ReturnBest ==
    /\ pc = "loop"
    /\ li > Len(lookback_periods)
    /\ all_ranks # <<>>
    /\ result' = selection(all_ranks)
    /\ pc' = "done"
    /\ UNCHANGED <<backtest_data, target_date, lookback_periods, li, all_ranks, windows>>
    /\ UNCHANGED <<rankVars, metricVars, apiVars, ingestVars>>

Next == SkipWindow \/ RankWindow \/ WindowRaises \/ ReturnCash \/ ReturnBest

Spec == Init /\ [][Next]_vars

(***************************************************************************)
(* rank_models on given metrics.                                           *)
(***************************************************************************)
InitRank ==
    /\ pc = "rank"
    /\ \E n \in 0..Len(RankNames) : \E f \in [1..n -> MetricMaps] :
          arg_metrics = ModelMetrics(n, f)
    /\ ret_ranks = None
    /\ backtest_data = <<>>
    /\ target_date = 0
    /\ lookback_periods = <<>>
    /\ li = 0
    /\ all_ranks = <<>>
    /\ windows = <<>>
    /\ result = None
    /\ arg_values = <<>>
    /\ arg_days = 0
    /\ ret_metrics = None
    /\ ApiIdle
    /\ IngestIdle

RankModels ==
    /\ pc = "rank"
    /\ ~rank_models_raises(arg_metrics)
    /\ ret_ranks' = rank_models(arg_metrics)
    /\ pc' = "ranked"
    /\ UNCHANGED <<arg_metrics, selectVars, metricVars, apiVars, ingestVars>>

NextRank == RankModels

SpecRank == InitRank /\ [][NextRank]_vars

(***************************************************************************)
(* calculate_all_metrics on given values.                                  *)
(***************************************************************************)
InitMetrics ==
    /\ pc = "metrics"
    /\ arg_values \in ValuesSet
    /\ arg_days \in DaysSet
    /\ ret_metrics = None
    /\ backtest_data = <<>>
    /\ target_date = 0
    /\ lookback_periods = <<>>
    /\ li = 0
    /\ all_ranks = <<>>
    /\ windows = <<>>
    /\ result = None
    /\ arg_metrics = <<>>
    /\ ret_ranks = None
    /\ ApiIdle
    /\ IngestIdle

CalculateAllMetrics ==
    /\ pc = "metrics"
    /\ calculate_annual_return(arg_values, arg_days).k # "raise"
    /\ ret_metrics' = calculate_all_metrics(arg_values, arg_days)
    /\ pc' = "returned"
    /\ UNCHANGED <<arg_values, arg_days, selectVars, rankVars, apiVars, ingestVars>>

\* The float power of calculate_annual_return raises OverflowError.
MetricsRaise ==
    /\ pc = "metrics"
    /\ calculate_annual_return(arg_values, arg_days).k = "raise"
    /\ pc' = "raised"
    /\ UNCHANGED <<arg_values, arg_days, ret_metrics, selectVars, rankVars, apiVars, ingestVars>>

NextMetrics == CalculateAllMetrics \/ MetricsRaise

SpecMetrics == InitMetrics /\ [][NextMetrics]_vars

(***************************************************************************)
(* Concurrent calls on one ModelSelection instance.  Every variable of a   *)
(* call is a function of the call; lookback_periods belongs to the         *)
(* instance and is shared, as is the class attribute METRIC_WEIGHTS.  A    *)
(* call of select_best_model goes from "select" through "loop" to "done"   *)
(* or "raised", one pass of its loop a step; a call of rank_models goes    *)
(* from "rank" to "ranked".                                                *)
(***************************************************************************)
Calls == 1..NumCalls

\* Variant: all_ranks is kept on the instance, one list for all calls.
RanksCell_shared(c) == 1

\* Line 285: all_ranks is a local variable, one list a call.
RanksCell(c) == c

SelectInput(data, target) ==
    [kind |-> "select", data |-> data, target |-> target, metrics |-> <<>>]

RankInput(metrics) ==
    [kind |-> "rank", data |-> <<>>, target |-> 0, metrics |-> metrics]

\* The arguments a call is made with: two models ranked in every window; a
\* single model that only the long window holds; a window whose sort
\* raises; and the metrics of two models for rank_models.
CallInputs ==
    {SelectInput(BacktestData(2, <<Series("up", 0, MaxDate), Series("zig", 1, MaxDate)>>),
                 MaxDate),
     SelectInput(BacktestData(1, <<Series("down", 0, 2)>>), MaxDate),
     SelectInput(BacktestData(2, <<Series("up", 0, 1), Series("dive", 0, MaxDate)>>),
                 MaxDate),
     RankInput(ModelMetrics(2, [i \in 1..2 |->
                  [m \in MetricSet |-> Real(RatInt(IF i = 1 THEN 1 ELSE -1))]]))}

InitCalls ==
    /\ \E f \in [Calls -> CallInputs] :
          /\ pc = [c \in Calls |-> f[c].kind]
          /\ backtest_data = [c \in Calls |-> f[c].data]
          /\ target_date = [c \in Calls |-> f[c].target]
          /\ arg_metrics = [c \in Calls |-> f[c].metrics]
    /\ lookback_periods \in LookbackSet
    /\ li = [c \in Calls |-> 0]
    /\ all_ranks = [c \in Calls |-> <<>>]
    /\ result = [c \in Calls |-> None]
    /\ ret_ranks = [c \in Calls |-> None]
    /\ windows = <<>>
    /\ arg_values = <<>>
    /\ arg_days = 0
    /\ ret_metrics = None
    /\ ApiIdle
    /\ IngestIdle

callInputs == <<backtest_data, target_date, lookback_periods, arg_metrics>>

otherVars == <<windows, metricVars, apiVars, ingestVars>>

\* Line 285: all_ranks = []
Enter(c) ==
    /\ pc[c] = "select"
    /\ all_ranks' = [all_ranks EXCEPT ![RanksCell(c)] = <<>>]
    /\ li' = [li EXCEPT ![c] = 1]
    /\ pc' = [pc EXCEPT ![c] = "loop"]
    /\ UNCHANGED <<callInputs, otherVars, result, ret_ranks>>

CallInLoop(c) == pc[c] = "loop" /\ li[c] <= Len(lookback_periods)

\* One pass of the loop of call c with the outcome w.
SkipPass(c, w) ==
    /\ w.outcome = "skip"
    /\ li' = [li EXCEPT ![c] = @ + 1]
    /\ UNCHANGED <<callInputs, otherVars, pc, all_ranks, result, ret_ranks>>

RankPass(c, w) ==
    /\ w.outcome = "rank"
    /\ all_ranks' = [all_ranks EXCEPT ![RanksCell(c)] = Append(@, w.ranks)]
    /\ li' = [li EXCEPT ![c] = @ + 1]
    /\ UNCHANGED <<callInputs, otherVars, pc, result, ret_ranks>>

RaisePass(c, w) ==
    /\ w.outcome = "raise"
    /\ pc' = [pc EXCEPT ![c] = "raised"]
    /\ UNCHANGED <<callInputs, otherVars, li, all_ranks, result, ret_ranks>>

CallSkips(c) ==
    /\ CallInLoop(c)
    /\ SkipPass(c, window_pass(backtest_data[c], target_date[c], lookback_periods[li[c]]))

CallRanks(c) ==
    /\ CallInLoop(c)
    /\ RankPass(c, window_pass(backtest_data[c], target_date[c], lookback_periods[li[c]]))

CallRaises(c) ==
    /\ CallInLoop(c)
    /\ RaisePass(c, window_pass(backtest_data[c], target_date[c], lookback_periods[li[c]]))

\* Lines 316-345.
CallReturns(c) ==
    /\ pc[c] = "loop"
    /\ li[c] > Len(lookback_periods)
    /\ result' = [result EXCEPT ![c] = selection(all_ranks[RanksCell(c)])]
    /\ pc' = [pc EXCEPT ![c] = "done"]
    /\ UNCHANGED <<callInputs, otherVars, li, all_ranks, ret_ranks>>

\* A call of rank_models, which keeps all it builds in local variables.
CallRankModels(c) ==
    /\ pc[c] = "rank"
    /\ ~rank_models_raises(arg_metrics[c])
    /\ ret_ranks' = [ret_ranks EXCEPT ![c] = rank_models(arg_metrics[c])]
    /\ pc' = [pc EXCEPT ![c] = "ranked"]
    /\ UNCHANGED <<callInputs, otherVars, li, all_ranks, result>>

NextCalls ==
    \E c \in Calls :
        \/ Enter(c)
        \/ CallSkips(c)
        \/ CallRanks(c)
        \/ CallRaises(c)
        \/ CallReturns(c)
        \/ CallRankModels(c)

SpecCalls == InitCalls /\ [][NextCalls]_vars

(***************************************************************************)
(* select_best_model on a single model, whose series may also jump from 1  *)
(* to 512.                                                                 *)
(***************************************************************************)
SingleSeriesSet ==
    {<<>>} \cup {Series(sh, lo, hi) : sh \in Shapes \cup {"surge"},
                                      lo \in Dates, hi \in Dates}

InitSingle ==
    /\ pc = "loop"
    /\ \E f \in [1..1 -> SingleSeriesSet] : backtest_data = BacktestData(1, f)
    /\ target_date \in TargetDates
    /\ lookback_periods \in LookbackSet
    /\ li = 1
    /\ all_ranks = <<>>
    /\ windows = <<>>
    /\ result = None
    /\ arg_metrics = <<>>
    /\ ret_ranks = None
    /\ arg_values = <<>>
    /\ arg_days = 0
    /\ ret_metrics = None
    /\ ApiIdle
    /\ IngestIdle

SpecSingle == InitSingle /\ [][Next]_vars

(***************************************************************************)
(* select_best_model on a rising and a falling model: A gains step_a and B *)
(* loses step_b a day from the same start value, over the same n           *)
(* consecutive dates ending at target_date, with lookback_periods = [n].   *)
(***************************************************************************)
StartValues == {6, 12}

Trend(start, step, lo, n) ==
    [i \in 1..n |-> [date |-> lo + i - 1, value |-> start + step * (i - 1)]]

\* backtest_data = {"A": ..., "B": ...} in either insertion order.
TrendData(first, a_points, b_points) ==
    IF first = "A"
    THEN <<[name |-> "A", points |-> a_points], [name |-> "B", points |-> b_points]>>
    ELSE <<[name |-> "B", points |-> b_points], [name |-> "A", points |-> a_points]>>

InitTrend ==
    /\ pc = "loop"
    /\ \E n \in 3..MaxRun : \E lo \in 0..1 : \E start \in StartValues :
       \E step_a \in 1..MaxStep : \E step_b \in 1..MaxStep : \E first \in {"A", "B"} :
          /\ start - step_b * (n - 1) > 0
          /\ backtest_data = TrendData(first, Trend(start, step_a, lo, n),
                                       Trend(start, -step_b, lo, n))
          /\ target_date = lo + n - 1
          /\ lookback_periods = <<n>>
    /\ li = 1
    /\ all_ranks = <<>>
    /\ windows = <<>>
    /\ result = None
    /\ arg_metrics = <<>>
    /\ ret_ranks = None
    /\ arg_values = <<>>
    /\ arg_days = 0
    /\ ret_metrics = None
    /\ ApiIdle
    /\ IngestIdle

NextTrend == RankWindow \/ ReturnBest

SpecTrend == InitTrend /\ [][NextTrend]_vars

(***************************************************************************)
(* The REST layer (app/api/v1/endpoints): GET /models/{id}/performance and *)
(* GET /models/{id}/backtest on a store of models, performance metrics and *)
(* backtest records.  Dates are day numbers; a row is [model_id, date].    *)
(***************************************************************************)
\* date_type.today()
Today == 100

\* days: int = Query(default=90, ge=1, le=100000) of /performance
DefaultDays == 90

\* days: int = Query(default=100000, ge=1, le=100000) of /backtest
DefaultBacktestDays == 100000

ModelIds == {"m1", "m2"}

\* One row a calendar day for the n days ending at the day last.
DailyRows(model_id, last, n) ==
    {[model_id |-> model_id, date |-> d] : d \in (last - n + 1)..last}

\* The lengths of the histories in the store: short ones, and one longer
\* than the default number of days.
HistoryLengths == 0..MaxHistory \cup {DefaultDays + 2}

\* A request: its path, the id in the path, and the query parameter days,
\* if given.
Requests ==
    [path : {"performance", "backtest"}, model_id : ModelIds \cup {"m3"},
     days_given : {TRUE}, days : 1..MaxQueryDays]
    \cup [path : {"performance", "backtest"}, model_id : ModelIds \cup {"m3"},
          days_given : {FALSE}, days : {0}]

EngineIdle ==
    /\ backtest_data = <<>>
    /\ target_date = 0
    /\ lookback_periods = <<>>
    /\ li = 0
    /\ all_ranks = <<>>
    /\ windows = <<>>
    /\ result = None
    /\ arg_metrics = <<>>
    /\ ret_ranks = None
    /\ arg_values = <<>>
    /\ arg_days = 0
    /\ ret_metrics = None

\* The store holds the models m1 and m2, or m2 only; m1 has a daily history
\* of metrics ending today or yesterday and backtest records or none, m2 two
\* rows of each.
InitApi ==
    /\ pc = "request"
    /\ db_models \in {ModelIds, {"m2"}}
    /\ \E n \in HistoryLengths : \E last \in {Today - 1, Today} :
          db_metrics = DailyRows("m1", last, n) \cup DailyRows("m2", Today, 2)
    /\ \E n \in {0, 2} :
          db_backtest = DailyRows("m1", Today, n) \cup DailyRows("m2", Today, 2)
    /\ request \in Requests
    /\ response = None
    /\ EngineIdle
    /\ IngestIdle

\* .order_by(date): the rows in ascending order of date.
RECURSIVE OrderByDate(_)
OrderByDate(rows) ==
    IF rows = {} THEN <<>>
    ELSE LET first == CHOOSE r \in rows : \A o \in rows : r.date <= o.date
         IN  <<first>> \o OrderByDate(rows \ {first})

\* get_model_or_404 finds the model.
ModelFound(model_id) == model_id \in db_models

NotFound(detail) == [status_code |-> 404, detail |-> detail]

\* .where(model_id == model_id).where(date >= cutoff_date).order_by(date)
RowsSince(table, model_id, cutoff_date) ==
    OrderByDate({r \in table : r.model_id = model_id /\ r.date >= cutoff_date})

PerformanceResponse(model_id, data_points) ==
    [status_code |-> 200, model_id |-> model_id, days |-> Len(data_points),
     data_points |-> data_points]

get_model_performance(model_id, days) ==
    IF ~ModelFound(model_id) THEN NotFound("Model not found")
    ELSE PerformanceResponse(model_id, RowsSince(db_metrics, model_id, Today - days))

BacktestResponse(model_id, backtest_records) ==
    IF backtest_records = <<>> THEN NotFound("No backtest data found for model")
    ELSE [status_code |-> 200, model_id |-> model_id, data_points |-> backtest_records]

get_backtest_data(model_id, days) ==
    IF ~ModelFound(model_id) THEN NotFound("Model not found")
    ELSE BacktestResponse(model_id, RowsSince(db_backtest, model_id, Today - days))

\* The value of the query parameter days, its default when it is not given.
QueryDays(default) == IF request.days_given THEN request.days ELSE default

GetModelPerformance ==
    /\ pc = "request"
    /\ request.path = "performance"
    /\ response' = get_model_performance(request.model_id, QueryDays(DefaultDays))
    /\ pc' = "responded"
    /\ UNCHANGED <<db_models, db_metrics, db_backtest, request>>
    /\ UNCHANGED <<selectVars, rankVars, metricVars, ingestVars>>

GetBacktestData ==
    /\ pc = "request"
    /\ request.path = "backtest"
    /\ response' = get_backtest_data(request.model_id, QueryDays(DefaultBacktestDays))
    /\ pc' = "responded"
    /\ UNCHANGED <<db_models, db_metrics, db_backtest, request>>
    /\ UNCHANGED <<selectVars, rankVars, metricVars, ingestVars>>

NextApi == GetModelPerformance \/ GetBacktestData

SpecApi == InitApi /\ [][NextApi]_vars

(***************************************************************************)
(* The backtest parser (app/parsers/backtest_parser.py).  A file is the    *)
(* sequence of its lines, a line the sequence of its whitespace-separated  *)
(* parts (line.strip().split()), a part a string of one of five kinds: a   *)
(* date in the form YYYY-MM-DD, a finite decimal literal, the literal inf, *)
(* a part that starts with #, any other word.  Dates are day numbers,      *)
(* numbers integers, words are numbered.                                   *)
(***************************************************************************)
DatePart(d) == [text |-> "date", value |-> d]

NumberPart(n) == [text |-> "number", value |-> n]

InfPart == [text |-> "inf", value |-> 0]

HashPart == [text |-> "hash", value |-> 0]

WordPart(w) == [text |-> "word", value |-> w]

\* A path at which no file exists, and one of a file with these lines.
Missing == [exists |-> FALSE, lines |-> <<>>]

File(lines) == [exists |-> TRUE, lines |-> lines]

\* raise BacktestParseError(detail), raised at the line line_num (0: at no
\* line); nothing of what was parsed leaves the call.
BacktestParseError(detail, line_num) ==
    [raised |-> "BacktestParseError", detail |-> detail, line_num |-> line_num]

\* return value
Returns(value) == [raised |-> "", value |-> value]

\* not line or line.startswith('#')
Skipped(parts) == parts = <<>> \/ parts[1].text = "hash"

\* datetime.strptime(part, '%Y-%m-%d') raises ValueError
StrptimeFails(part) == part.text # "date"

\* float(part) raises ValueError
FloatFails(part) == part.text \notin {"number", "inf"}

\* int(float(part)) raises OverflowError
IntOverflows(part) == part.text = "inf"

\* Values below -99999 stand for missing data.
InvalidBelow == -99999

\* new_highs and new_lows: int(float(part)), cleaned.
Cleaned(part) == IF part.value < InvalidBelow THEN 0 ELSE part.value

\* float(part): a number or inf.
FloatOf(part) == [inf |-> part.text = "inf", value |-> part.value]

\* The dict of a line of five parts, and of a line of six.
data_point(parts) ==
    IF Len(parts) = 6
    THEN [date |-> parts[1].value, buy_hold_value |-> FloatOf(parts[2]),
          traded_value |-> FloatOf(parts[3]), new_highs |-> Cleaned(parts[4]),
          new_lows |-> Cleaned(parts[5]), selected_model |-> parts[6]]
    ELSE [date |-> parts[1].value, buy_hold_value |-> FloatOf(parts[2]),
          traded_value |-> FloatOf(parts[3]), new_highs |-> Cleaned(parts[4]),
          new_lows |-> Cleaned(parts[5])]

\* What the body of the loop does with the line line_num: "skip", "append",
\* or the error it raises.  A ValueError is raised again as a
\* BacktestParseError by the inner handler, any other exception by the
\* outer one.
line_outcome(parts) ==
    IF Skipped(parts) THEN "skip"
    ELSE IF Len(parts) \notin {5, 6} THEN "Expected 5 or 6 columns"
    ELSE IF StrptimeFails(parts[1]) THEN "Invalid data format"
    ELSE IF FloatFails(parts[2]) \/ FloatFails(parts[3]) THEN "Invalid data format"
    ELSE IF FloatFails(parts[4]) THEN "Invalid data format"
    ELSE IF IntOverflows(parts[4]) THEN "Failed to parse"
    ELSE IF FloatFails(parts[5]) THEN "Invalid data format"
    ELSE IF IntOverflows(parts[5]) THEN "Failed to parse"
    ELSE "append"

\* The loop with a malformed line skipped like a comment.
RECURSIVE parse_lines_lenient(_, _, _)
parse_lines_lenient(lines, line_num, data) ==
    IF line_num > Len(lines) THEN Returns(data)
    ELSE LET parts == lines[line_num]
         IN  IF line_outcome(parts) = "append"
             THEN parse_lines_lenient(lines, line_num + 1, Append(data, data_point(parts)))
             ELSE parse_lines_lenient(lines, line_num + 1, data)

\* for line_num, line in enumerate(f, start=1), from the line line_num on
\* with the list backtest_data = data.
RECURSIVE parse_lines(_, _, _)
parse_lines(lines, line_num, data) ==
    IF line_num > Len(lines) THEN Returns(data)
    ELSE LET parts == lines[line_num]
             outcome == line_outcome(parts)
         IN  IF outcome = "skip" THEN parse_lines(lines, line_num + 1, data)
             ELSE IF outcome = "append"
             THEN parse_lines(lines, line_num + 1, Append(data, data_point(parts)))
             ELSE BacktestParseError(outcome, line_num)

\* if not backtest_data: raise
NonEmpty(parsed) ==
    IF parsed.raised = "" /\ parsed.value = <<>>
    THEN BacktestParseError("No data found", 0)
    ELSE parsed

parse_backtest_file(file_path) ==
    IF ~file_path.exists THEN BacktestParseError("File not found", 0)
    ELSE NonEmpty(parse_lines(file_path.lines, 1, <<>>))

\* Lines of a backtest file: blank, a comment, five and six columns, counts
\* below the threshold, four and seven columns, words for the date and for
\* a number, a value and a count of inf.
GoodLine(d) ==
    <<DatePart(d), NumberPart(10000), NumberPart(10000 + d), NumberPart(5), NumberPart(2)>>

SampleLines ==
    { <<>>,
      <<HashPart, WordPart(1)>>,
      GoodLine(1),
      GoodLine(2) \o <<WordPart(2)>>,
      <<DatePart(3), NumberPart(-100000), NumberPart(10), NumberPart(-100000), NumberPart(-99999)>>,
      <<DatePart(1), InfPart, NumberPart(10), NumberPart(5), NumberPart(2)>>,
      SubSeq(GoodLine(1), 1, 4),
      GoodLine(1) \o <<WordPart(2), WordPart(2)>>,
      <<WordPart(3)>> \o SubSeq(GoodLine(1), 2, 5),
      <<DatePart(1), NumberPart(10), WordPart(3), NumberPart(5), NumberPart(2)>>,
      <<DatePart(1), NumberPart(10), NumberPart(10), NumberPart(5), InfPart>> }

RECURSIVE FilesOf(_)
FilesOf(n) ==
    IF n = 0 THEN {<<>>}
    ELSE FilesOf(n - 1) \cup
         {Append(f, l) : f \in {g \in FilesOf(n - 1) : Len(g) = n - 1}, l \in SampleLines}

BacktestFiles == {File(lines) : lines \in FilesOf(MaxLines)} \cup {Missing}

InitParse ==
    /\ pc = "parse"
    /\ call \in [fn : {"parse_backtest_file"}, file_path : BacktestFiles]
    /\ ret = None
    /\ db_snapshots = {}
    /\ db_holdings = {}
    /\ ApiIdle
    /\ EngineIdle

ParseBacktestFile ==
    /\ pc = "parse"
    /\ ret' = parse_backtest_file(call.file_path)
    /\ pc' = "done"
    /\ UNCHANGED <<call, db_snapshots, db_holdings>>
    /\ UNCHANGED <<selectVars, rankVars, metricVars, apiVars>>

NextParse == ParseBacktestFile

SpecParse == InitParse /\ [][NextParse]_vars

(***************************************************************************)
(* The ingestion CLI (app/cli/ingest.py) on the store of models, metrics,  *)
(* snapshots, holdings and backtest records.  A model's id stands for its  *)
(* unique name; every other row has an id of its own: its model (for a     *)
(* holding, its snapshot) with the next number not used by a row of that   *)
(* model (snapshot).  A data directory holds a status file, a holdings     *)
(* file, a ranks file and a backtest file, each of them or not.            *)
(***************************************************************************)
\* Lines of PyTAAA_status.params: cumu_value lines with a date and a value,
\* one the pattern matches with a date that is none, and other lines.
Cumu(d, v) == [text |-> "cumu_value", date |-> d, value |-> v]

BadCumu == [text |-> "cumu_value", date |-> 0, value |-> 1]

OtherLine == [text |-> "other", date |-> 0, value |-> 0]

StatusParseError(line_num) ==
    [raised |-> "StatusParseError", detail |-> "Invalid data", line_num |-> line_num]

RECURSIVE status_lines(_, _, _)
status_lines(lines, line_num, metrics) ==
    IF line_num > Len(lines) THEN Returns(metrics)
    ELSE LET line == lines[line_num]
         IN  IF line.text # "cumu_value" THEN status_lines(lines, line_num + 1, metrics)
             ELSE IF line.date = 0 THEN StatusParseError(line_num)
             ELSE status_lines(lines, line_num + 1,
                      Append(metrics, [date |-> line.date, base_value |-> line.value,
                                       signal |-> 0, traded_value |-> line.value]))

parse_status_file(file_path) ==
    IF ~file_path.exists THEN StatusParseError(0)
    ELSE status_lines(file_path.lines, 1, <<>>)

\* A block of PyTAAA_holdings.params: TradeDate, stocks and buyprice (shares
\* are left out).
Block(d, stocks, buyprice) == [date |-> d, stocks |-> stocks, buyprice |-> buyprice]

\* ticker.upper()
Upper(ticker) ==
    IF ticker = "aapl" THEN "AAPL" ELSE IF ticker = "cash" THEN "CASH" ELSE ticker

\* The holdings of a block: every stock but CASH with its buy price.
RECURSIVE holdings_of(_, _, _)
holdings_of(block, k, holdings) ==
    IF k > Len(block.stocks) THEN holdings
    ELSE IF Upper(block.stocks[k]) = "CASH" THEN holdings_of(block, k + 1, holdings)
    ELSE holdings_of(block, k + 1,
             Append(holdings, [ticker |-> Upper(block.stocks[k]),
                               purchase_price |-> block.buyprice[k]]))

\* _create_snapshot returns None.
NoSnapshot(block) ==
    \/ block.stocks = <<>>
    \/ block.buyprice = <<>>
    \/ Len(block.stocks) # Len(block.buyprice)

RECURSIVE holdings_blocks(_, _, _)
holdings_blocks(blocks, k, snapshots) ==
    IF k > Len(blocks) THEN snapshots
    ELSE IF NoSnapshot(blocks[k]) THEN holdings_blocks(blocks, k + 1, snapshots)
    ELSE holdings_blocks(blocks, k + 1,
             Append(snapshots, [date |-> blocks[k].date,
                                holdings |-> holdings_of(blocks[k], 1, <<>>)]))

parse_holdings_file(file_path) == holdings_blocks(file_path.lines, 1, <<>>)

\* The store.
Store ==
    [models |-> db_models, metrics |-> db_metrics, snapshots |-> db_snapshots,
     holdings |-> db_holdings, backtest |-> db_backtest]

\* The largest number of the ids of the rows of an owner, 0 if it has none.
MaxId(table, owner) ==
    LET used == {r.id[2] : r \in {o \in table : o.id[1] = owner}}
    IN  IF used = {} THEN 0 ELSE CHOOSE n \in used : \A m \in used : m <= n

\* A new id: the k-th after those of the owner.
NewId(table, owner, k) == <<owner, MaxId(table, owner) + k>>

\* input(...).lower()
Lower(answer) ==
    IF answer = "Y" THEN "y" ELSE IF answer = "N" THEN "n" ELSE answer

\* Only n cancels.
Cancelled_only_n(answer) == Lower(answer) = "n"

Cancelled(answer) == Lower(answer) # "y"

\* The deletes of ingest_model.
SnapshotIds(db, model_id) == {s.id : s \in {r \in db.snapshots : r.model_id = model_id}}

\* The deletes without the delete of the metrics.
delete_existing_keep_metrics(db, model_id) ==
    [db EXCEPT !.holdings = {h \in @ : h.snapshot_id \notin SnapshotIds(db, model_id)},
               !.snapshots = {s \in @ : s.model_id # model_id}]

delete_existing(db, model_id) ==
    [db EXCEPT !.holdings = {h \in @ : h.snapshot_id \notin SnapshotIds(db, model_id)},
               !.snapshots = {s \in @ : s.model_id # model_id},
               !.metrics = {m \in @ : m.model_id # model_id}]

\* session.add(model)
create_model(db, model_name) == [db EXCEPT !.models = @ \cup {model_name}]

\* The loop of session.add(metric).
insert_metrics(db, model_id, metrics_data) ==
    [db EXCEPT !.metrics = @ \cup
        {[id |-> NewId(db.metrics, model_id, i), model_id |-> model_id,
          date |-> metrics_data[i].date, base_value |-> metrics_data[i].base_value,
          signal |-> metrics_data[i].signal,
          traded_value |-> metrics_data[i].traded_value] : i \in DOMAIN metrics_data}]

\* sorted(holdings_data, key=lambda x: x['date']): stable.
RECURSIVE InsertByDate(_, _)
InsertByDate(sorted, x) ==
    IF sorted = <<>> THEN <<x>>
    ELSE IF x.date < sorted[Len(sorted)].date
    THEN Append(InsertByDate(SubSeq(sorted, 1, Len(sorted) - 1), x), sorted[Len(sorted)])
    ELSE Append(sorted, x)

RECURSIVE sorted_by_date(_)
sorted_by_date(holdings_data) ==
    IF holdings_data = <<>> THEN <<>>
    ELSE InsertByDate(sorted_by_date(SubSeq(holdings_data, 1, Len(holdings_data) - 1)),
                      holdings_data[Len(holdings_data)])

HoldingKey(holding) == <<holding.ticker, holding.purchase_price>>

\* buy_date of a holding of the snapshot dated date, given previous_holdings,
\* the dict as the set of its items.
buy_date_of(previous_holdings, holding, date) ==
    IF \E p \in previous_holdings : p.key = HoldingKey(holding)
    THEN (CHOOSE p \in previous_holdings : p.key = HoldingKey(holding)).buy_date
    ELSE date

\* The keys of the earlier snapshots are never forgotten.
current_holdings_set_kept(previous_holdings, snapshot) ==
    previous_holdings \cup
    {[key |-> HoldingKey(snapshot.holdings[k]),
      buy_date |-> buy_date_of(previous_holdings, snapshot.holdings[k], snapshot.date)] :
        k \in DOMAIN snapshot.holdings}

\* current_holdings_set after the holdings of a snapshot.
current_holdings_set(previous_holdings, snapshot) ==
    {[key |-> HoldingKey(snapshot.holdings[k]),
      buy_date |-> buy_date_of(previous_holdings, snapshot.holdings[k], snapshot.date)] :
        k \in DOMAIN snapshot.holdings}

\* One pass of the loop over the snapshots: the snapshot and its holdings.
add_snapshot(db, model_id, snapshot, previous_holdings) ==
    LET snapshot_id == NewId(db.snapshots, model_id, 1)
    IN  [db EXCEPT
            !.snapshots = @ \cup
                {[id |-> snapshot_id, model_id |-> model_id, date |-> snapshot.date]},
            !.holdings = @ \cup
                {[id |-> NewId(db.holdings, snapshot_id, k), snapshot_id |-> snapshot_id,
                  ticker |-> snapshot.holdings[k].ticker,
                  purchase_price |-> snapshot.holdings[k].purchase_price,
                  buy_date |-> buy_date_of(previous_holdings, snapshot.holdings[k],
                                           snapshot.date)] :
                    k \in DOMAIN snapshot.holdings}]

\* for i, snapshot_dict in enumerate(holdings_data_sorted), from i on.
RECURSIVE insert_snapshots(_, _, _, _, _)
insert_snapshots(db, model_id, holdings_data_sorted, i, previous_holdings) ==
    IF i > Len(holdings_data_sorted) THEN db
    ELSE insert_snapshots(
             add_snapshot(db, model_id, holdings_data_sorted[i], previous_holdings),
             model_id, holdings_data_sorted, i + 1,
             current_holdings_set(previous_holdings, holdings_data_sorted[i]))

insert_holdings(db, model_id, holdings_data) ==
    insert_snapshots(db, model_id, sorted_by_date(holdings_data), 1, {})

\* What a call did: what it returned or raised, the store it left, and
\* whether it asked to overwrite.
Outcome(returned, db, prompted) == [ret |-> returned, db |-> db, prompted |-> prompted]

\* The body of ingest_model once the files are parsed.
ingest_parsed(db, model_name, answer, metrics_data, holdings_data) ==
    IF model_name \in db.models /\ Cancelled(answer) THEN Outcome(Returns(FALSE), db, TRUE)
    ELSE LET ready == IF model_name \in db.models THEN delete_existing(db, model_name)
                      ELSE create_model(db, model_name)
         IN  Outcome(Returns(TRUE),
                     insert_holdings(insert_metrics(ready, model_name, metrics_data),
                                     model_name, holdings_data),
                     model_name \in db.models)

RanksParseError == [raised |-> "RanksParseError", detail |-> "Invalid rank data", line_num |-> 0]

ingest_model(db, data_dir, model_name, answer) ==
    IF ~data_dir.status.exists THEN Outcome(Returns(FALSE), db, FALSE)
    ELSE LET metrics_data == parse_status_file(data_dir.status)
         IN  IF metrics_data.raised # "" THEN Outcome(metrics_data, db, FALSE)
             ELSE IF data_dir.ranks = "invalid" THEN Outcome(RanksParseError, db, FALSE)
             ELSE ingest_parsed(db, model_name, answer, metrics_data.value,
                                IF data_dir.holdings.exists
                                THEN parse_holdings_file(data_dir.holdings) ELSE <<>>)

\* No selected_model: NULL.
Null == [text |-> "null", value |-> 0]

\* delete(BacktestData).where(BacktestData.model_id == model.id)
delete_backtest(db, model_id) ==
    [db EXCEPT !.backtest = {b \in @ : b.model_id # model_id}]

\* The loop of session.add(backtest_record).
insert_backtest(db, model_id, data) ==
    [db EXCEPT !.backtest = @ \cup
        {[id |-> NewId(db.backtest, model_id, i), model_id |-> model_id,
          date |-> data[i].date,
          buy_hold_value |-> data[i].buy_hold_value,
          traded_value |-> data[i].traded_value,
          new_highs |-> data[i].new_highs, new_lows |-> data[i].new_lows,
          selected_model |-> IF "selected_model" \in DOMAIN data[i]
                             THEN data[i].selected_model ELSE Null] :
            i \in DOMAIN data}]

HasBacktest(db, model_id) == \E b \in db.backtest : b.model_id = model_id

\* The records are stored for a name no model has.
ingest_backtest_data_unchecked(db, data_dir, model_name, answer) ==
    IF ~data_dir.backtest.exists THEN Outcome(Returns(FALSE), db, FALSE)
    ELSE LET parsed == parse_backtest_file(data_dir.backtest)
         IN  IF parsed.raised # "" THEN Outcome(parsed, db, FALSE)
             ELSE IF HasBacktest(db, model_name) /\ Cancelled(answer)
             THEN Outcome(Returns(FALSE), db, TRUE)
             ELSE Outcome(Returns(TRUE),
                          insert_backtest(delete_backtest(db, model_name),
                                          model_name, parsed.value),
                          HasBacktest(db, model_name))

ingest_backtest_data(db, data_dir, model_name, answer) ==
    IF ~data_dir.backtest.exists THEN Outcome(Returns(FALSE), db, FALSE)
    ELSE LET parsed == parse_backtest_file(data_dir.backtest)
         IN  IF parsed.raised # "" THEN Outcome(parsed, db, FALSE)
             ELSE IF model_name \notin db.models THEN Outcome(Returns(FALSE), db, FALSE)
             ELSE IF HasBacktest(db, model_name) /\ Cancelled(answer)
             THEN Outcome(Returns(FALSE), db, TRUE)
             ELSE Outcome(Returns(TRUE),
                          insert_backtest(
                              IF HasBacktest(db, model_name)
                              THEN delete_backtest(db, model_name) ELSE db,
                              model_name, parsed.value),
                          HasBacktest(db, model_name))

\* The data directories of the runs: without a status file; with status
\* and backtest files only; with every file, the snapshots out of order;
\* with files that do not parse.
DataDir(status, holdings, ranks, backtest) ==
    [status |-> status, holdings |-> holdings, ranks |-> ranks, backtest |-> backtest]

SampleHoldings ==
    File(<<Block(2, <<"AAPL", "CASH">>, <<5, 1>>),
           Block(1, <<"AAPL", "MSFT">>, <<5, 7>>)>>)

DataDirs ==
    { DataDir(Missing, SampleHoldings, "valid", Missing),
      DataDir(File(<<Cumu(1, 10)>>), Missing, "absent", File(<<GoodLine(1)>>)),
      DataDir(File(<<OtherLine, Cumu(1, 10), Cumu(2, 12)>>), SampleHoldings, "valid",
              File(<<<<HashPart>>, GoodLine(1), GoodLine(2) \o <<WordPart(2)>>>>)),
      DataDir(File(<<Cumu(1, 10)>>), SampleHoldings, "invalid",
              File(<<GoodLine(1), SubSeq(GoodLine(2), 1, 4)>>)),
      DataDir(File(<<Cumu(1, 10), BadCumu>>), Missing, "absent", Missing) }

\* What is typed at the prompt.
Answers == {"y", "Y", "n", "", "yes"}

\* The holdings files of the runs that show the buy dates: up to
\* MaxSnapshots blocks, dated in any order, of these stocks.
StockLists ==
    { [stocks |-> <<"CASH">>, buyprice |-> <<1>>],
      [stocks |-> <<"AAPL", "cash">>, buyprice |-> <<5, 1>>],
      [stocks |-> <<"aapl">>, buyprice |-> <<6>>],
      [stocks |-> <<"AAPL", "MSFT">>, buyprice |-> <<5, 7>>],
      [stocks |-> <<"MSFT">>, buyprice |-> <<7, 1>>] }

SnapshotDates == 1..3

Blocks == {Block(d, l.stocks, l.buyprice) : d \in SnapshotDates, l \in StockLists}

RECURSIVE BlocksOf(_)
BlocksOf(n) ==
    IF n = 0 THEN {<<>>}
    ELSE BlocksOf(n - 1) \cup
         {Append(f, b) : f \in {g \in BlocksOf(n - 1) : Len(g) = n - 1}, b \in Blocks}

HoldingsDirs ==
    {DataDir(File(<<Cumu(1, 10)>>), File(blocks), "absent", Missing) :
        blocks \in BlocksOf(MaxSnapshots)}

\* A fresh store.
InitIngest ==
    /\ pc = "cli"
    /\ db_models = {}
    /\ db_metrics = {}
    /\ db_backtest = {}
    /\ db_snapshots = {}
    /\ db_holdings = {}
    /\ call = None
    /\ ret = None
    /\ request = None
    /\ response = None
    /\ EngineIdle

\* The store after a call.
Stored(db) ==
    /\ db_models' = db.models
    /\ db_metrics' = db.metrics
    /\ db_snapshots' = db.snapshots
    /\ db_holdings' = db.holdings
    /\ db_backtest' = db.backtest

\* python -m app.cli.ingest --data-dir data_dir --model model_name
IngestModel(dirs, names, answers) ==
    /\ pc = "cli"
    /\ \E data_dir \in dirs : \E model_name \in names : \E answer \in answers :
          LET out == ingest_model(Store, data_dir, model_name, answer)
          IN  /\ call' = [fn |-> "ingest_model", data_dir |-> data_dir,
                          model_name |-> model_name, answer |-> answer,
                          prompted |-> out.prompted]
              /\ ret' = out.ret
              /\ Stored(out.db)
    /\ UNCHANGED <<pc, request, response, selectVars, rankVars, metricVars>>

\* python -m app.cli.ingest --data-dir data_dir --model model_name --backtest
IngestBacktestData(dirs, names, answers) ==
    /\ pc = "cli"
    /\ \E data_dir \in dirs : \E model_name \in names : \E answer \in answers :
          LET out == ingest_backtest_data(Store, data_dir, model_name, answer)
          IN  /\ call' = [fn |-> "ingest_backtest_data", data_dir |-> data_dir,
                          model_name |-> model_name, answer |-> answer,
                          prompted |-> out.prompted]
              /\ ret' = out.ret
              /\ Stored(out.db)
    /\ UNCHANGED <<pc, request, response, selectVars, rankVars, metricVars>>

NextIngest ==
    \/ IngestModel(DataDirs, ModelIds, Answers)
    \/ IngestBacktestData(DataDirs, ModelIds, Answers)

SpecIngest == InitIngest /\ [][NextIngest]_vars

\* One run of ingest_model on a fresh store.
NextBuyDate == ret = None /\ IngestModel(HoldingsDirs, {"m1"}, {"y"})

SpecBuyDate == InitIngest /\ [][NextBuyDate]_vars

(***************************************************************************)
(* Properties of select_best_model.  What qualifies is counted here from   *)
(* the arguments of the call, independently of the windows the loop built. *)
(***************************************************************************)
\* The positions of the points dated within [target_date - L, target_date].
InWindow(points, L) ==
    {i \in DOMAIN points :
        target_date - L <= points[i].date /\ points[i].date <= target_date}

Qualifying(L) ==
    {i \in DOMAIN backtest_data : Cardinality(InWindow(backtest_data[i].points, L)) >= 2}

QualifyingNames(L) == {backtest_data[i].name : i \in Qualifying(L)}

NoQualifying ==
    \A k \in DOMAIN lookback_periods : Qualifying(lookback_periods[k]) = {}

RankedWindows == {k \in DOMAIN windows : windows[k].outcome = "rank"}

Returned == pc = "done"

\* C1: the call returns ("cash", 0.0, {}) when no model has 2 points in any
\* configured window, and returns a non-empty all_ranks whenever some window
\* has a qualifying model.
C1_CashIffNoQualifying ==
    pc \in {"done", "raised"} =>
        IF NoQualifying
        THEN Returned /\ result = CashResult
        ELSE Returned /\ result.all_ranks # <<>>

\* The sum of a model's composite ranks over the windows S that ranked it.
RECURSIVE SumOver(_, _)
SumOver(S, name) ==
    IF S = {} THEN RatInt(0)
    ELSE LET k == CHOOSE j \in S : TRUE
         IN  RatAdd(IF name \in Names(windows[k].ranks)
                    THEN RankOf(windows[k].ranks, name) ELSE RatInt(0),
                    SumOver(S \ {k}, name))

\* C2: every aggregate rank of all_ranks is the sum of the model's composite
\* ranks over the windows that ranked it, divided by the number of windows
\* that produced a ranking, the same for every model.
C2_CommonDenominator ==
    Returned /\ result.all_ranks # <<>> =>
        \A name \in Names(result.all_ranks) :
            RankOf(result.all_ranks, name) =
                RatDiv(SumOver(RankedWindows, name),
                       RatInt(Cardinality(RankedWindows)))

\* Two windows ranked, one model in only one of them, and its aggregate is
\* half its composite rank.
C2_Witness ==
    /\ Returned
    /\ Cardinality(RankedWindows) = 2
    /\ \E name \in Names(result.all_ranks) : \E k \in RankedWindows :
          /\ \A j \in RankedWindows : name \in Names(windows[j].ranks) <=> j = k
          /\ RankOf(result.all_ranks, name) =
                RatDiv(RankOf(windows[k].ranks, name), RatInt(2))

\* The values of the points of a series within the window, in date order
\* (the series are ascending, the points of a window are consecutive).
ValuesInWindow(points, L) ==
    [p \in 1..Cardinality(InWindow(points, L)) |->
        points[(CHOOSE i \in InWindow(points, L) :
                   \A j \in InWindow(points, L) : i <= j) + p - 1].value]

\* C3: a model is scored in the window of lookback L exactly when 2 or more
\* of its points are dated within [target_date - L, target_date], and only
\* those points enter its metrics.
C3_ScoredIffTwoPointsInWindow ==
    \A k \in DOMAIN windows :
        /\ Names(windows[k].models) = QualifyingNames(windows[k].lookback_days)
        /\ \A i \in Qualifying(windows[k].lookback_days) :
              \E e \in DOMAIN windows[k].models :
                  /\ windows[k].models[e].name = backtest_data[i].name
                  /\ windows[k].models[e].values =
                        ValuesInWindow(backtest_data[i].points,
                                       windows[k].lookback_days)
                  /\ windows[k].models[e].actual_days =
                        Cardinality(InWindow(backtest_data[i].points,
                                             windows[k].lookback_days))

\* A window that scores a model on exactly the 2 points on its bounds, the
\* model having points before the cutoff and after target_date, and that
\* leaves out a model with a single point inside.
C3_Witness ==
    \E k \in DOMAIN windows : \E i \in DOMAIN backtest_data :
    \E o \in DOMAIN backtest_data :
        /\ windows[k].outcome = "rank"
        /\ backtest_data[i].name \in Names(windows[k].models)
        /\ {backtest_data[i].points[j].date :
               j \in InWindow(backtest_data[i].points, windows[k].lookback_days)}
             = {target_date - windows[k].lookback_days, target_date}
        /\ \E j \in DOMAIN backtest_data[i].points :
              backtest_data[i].points[j].date > target_date
        /\ \E j \in DOMAIN backtest_data[i].points :
              backtest_data[i].points[j].date < target_date - windows[k].lookback_days
        /\ Cardinality(InWindow(backtest_data[o].points, windows[k].lookback_days)) = 1
        /\ backtest_data[o].name \notin Names(windows[k].models)

\* The sets of ranks the models of a window get, by metric.
RanksIn(w) ==
    [m \in MetricSet |-> {w.metric_ranks[i][m] : i \in DOMAIN w.models}]

\* C4: the RankMap of a window holds exactly the models that qualify in it,
\* its per-metric ranks run over 1..N for the N qualifying models, and a
\* model has an aggregate rank only if some ranked window held it.
C4_AbsentNotRanked ==
    /\ \A k \in RankedWindows :
          /\ Names(windows[k].ranks) = QualifyingNames(windows[k].lookback_days)
          /\ RanksIn(windows[k]) =
                [m \in MetricSet |->
                    1..Cardinality(Qualifying(windows[k].lookback_days))]
    /\ Returned =>
          Names(result.all_ranks) =
              UNION {QualifyingNames(windows[k].lookback_days) : k \in RankedWindows}

\* Two models in backtest_data, one window ranks only one of them (with
\* rank 1 in every metric), another window ranks both.
C4_Witness ==
    /\ Returned
    /\ Len(backtest_data) = 2
    /\ \E k \in RankedWindows : \E j \in RankedWindows :
          /\ Cardinality(Names(windows[k].ranks)) = 1
          /\ Cardinality(Names(windows[j].ranks)) = 2
          /\ RanksIn(windows[k])["sharpe_ratio"] = {1}
          /\ RanksIn(windows[j])["sharpe_ratio"] = {1, 2}

\* C5: the selected model has the minimum aggregate rank of all_ranks.
C5_SelectedIsMinimum ==
    Returned /\ result.all_ranks # <<>> =>
        /\ result.selected_model \in Names(result.all_ranks)
        /\ \A name \in Names(result.all_ranks) :
              RatLeq(RankOf(result.all_ranks, result.selected_model),
                     RankOf(result.all_ranks, name))

\* The selected model is the second entry of all_ranks and has a strictly
\* smaller aggregate rank than the first.
C5_Witness ==
    /\ Returned
    /\ Len(result.all_ranks) = 2
    /\ result.selected_model = result.all_ranks[2].name
    /\ RatLess(result.all_ranks[2].rank, result.all_ranks[1].rank)

\* The smallest aggregate rank among the entries S of all_ranks.
MinRank(ranks, S) ==
    CHOOSE r \in {ranks[i].rank : i \in S} : \A i \in S : RatLeq(r, ranks[i].rank)

\* The second smallest: the smallest after one entry of smallest rank is
\* taken out.
SecondRank(ranks) ==
    MinRank(ranks, DOMAIN ranks \
                   {CHOOSE i \in DOMAIN ranks : ranks[i].rank = MinRank(ranks, DOMAIN ranks)})

\* C6: confidence is the second smallest aggregate rank minus the smallest
\* with two or more models in all_ranks and 0 with fewer; it is never
\* negative, and 0 exactly when the two best tie or fewer than two are ranked.
C6_ConfidenceIsGap ==
    Returned =>
        /\ Len(result.all_ranks) < 2 => result.confidence = RatInt(0)
        /\ Len(result.all_ranks) >= 2 =>
              result.confidence =
                  RatSub(SecondRank(result.all_ranks),
                         MinRank(result.all_ranks, DOMAIN result.all_ranks))
        /\ ~RatLess(result.confidence, RatInt(0))
        /\ result.confidence = RatInt(0) <=>
              \/ Len(result.all_ranks) < 2
              \/ SecondRank(result.all_ranks) =
                    MinRank(result.all_ranks, DOMAIN result.all_ranks)

\* Two models ranked with different aggregate ranks: a positive confidence.
C6_Witness ==
    /\ Returned
    /\ Len(result.all_ranks) = 2
    /\ result.all_ranks[1].rank # result.all_ranks[2].rank
    /\ RatLess(RatInt(0), result.confidence)

\* Two models ranked with equal aggregate ranks: confidence 0.
C6_WitnessTie ==
    /\ Returned
    /\ Len(result.all_ranks) = 2
    /\ result.all_ranks[1].rank = result.all_ranks[2].rank

Reverse(s) == [i \in DOMAIN s |-> s[Len(s) + 1 - i]]

\* all_ranks as a mapping, without the insertion order.
AsMap(ranks) == {<<ranks[i].name, ranks[i].rank>> : i \in DOMAIN ranks}

SameResult(r1, r2) ==
    /\ r1.selected_model = r2.selected_model
    /\ r1.confidence = r2.confidence
    /\ AsMap(r1.all_ranks) = AsMap(r2.all_ranks)

\* C7: the call returns the same selected_model, confidence and all_ranks
\* for the lookback periods in the reverse order.
C7_LookbackOrderIrrelevant ==
    Returned =>
        SameResult(result,
                   select_best_model(backtest_data, target_date,
                                     Reverse(lookback_periods)))

(***************************************************************************)
(* Properties of the metric engine and of rank_models.                     *)
(***************************************************************************)
\* C8: no call of the engine raises, and every metric returned is a real
\* number.
C8_EngineTotal ==
    /\ pc # "raised"
    /\ pc = "returned" => \A m \in MetricSet : IsReal(ret_metrics[m])

\* The claimed weights 0.25 / 0.25 / 0.20 / 0.15 / 0.15.
ClaimedWeight(m) ==
    CASE m = "annual_return" -> Rat(1, 4)
      [] m = "sharpe_ratio"  -> Rat(1, 4)
      [] m = "max_drawdown"  -> Rat(1, 5)
      [] m = "sortino_ratio" -> Rat(3, 20)
      [] m = "calmar_ratio"  -> Rat(3, 20)

\* Model i is better than model j in metric m: a lower max_drawdown, a
\* higher value of the other metrics; a missing key counts as 0.0.
Better(m, i, j) ==
    IF m = "max_drawdown"
    THEN Less(Get(arg_metrics[i].metrics, m), Get(arg_metrics[j].metrics, m))
    ELSE Less(Get(arg_metrics[j].metrics, m), Get(arg_metrics[i].metrics, m))

\* The position of model i when the models are sorted by metric m, equal
\* values staying in input order.
SortedPosition(m, i) ==
    1 + Cardinality({j \in DOMAIN arg_metrics : Better(m, j, i)})
      + Cardinality({j \in 1..(i - 1) : ~Better(m, j, i) /\ ~Better(m, i, j)})

\* C9: per metric the N models get the ranks 1..N by sorted position,
\* ascending for max_drawdown and descending for the other metrics; the
\* composite rank is the weighted sum of the five ranks; no models, no ranks.
C9_RanksBySortedPosition ==
    pc = "ranked" =>
        /\ arg_metrics = <<>> => ret_ranks = <<>>
        /\ Len(ret_ranks) = Len(arg_metrics)
        /\ LET ranks == metric_ranks(arg_metrics)
           IN  \A m \in MetricSet :
                  /\ {ranks[i][m] : i \in DOMAIN arg_metrics} = 1..Len(arg_metrics)
                  /\ \A i \in DOMAIN arg_metrics : ranks[i][m] = SortedPosition(m, i)
        /\ \A i \in DOMAIN arg_metrics :
              /\ ret_ranks[i].name = arg_metrics[i].name
              /\ ret_ranks[i].rank =
                    RatSum([j \in DOMAIN MetricNames |->
                              RatMul(RatInt(SortedPosition(MetricNames[j], i)),
                                     ClaimedWeight(MetricNames[j]))])

\* Three models; the one with the lowest max_drawdown and the lowest annual
\* return is first in max_drawdown and last in annual_return.
C9_Witness ==
    /\ pc = "ranked"
    /\ Len(arg_metrics) = 3
    /\ \E i \in DOMAIN arg_metrics :
          /\ \A j \in DOMAIN arg_metrics \ {i} :
                /\ Better("max_drawdown", i, j)
                /\ Better("annual_return", j, i)
          /\ metric_ranks(arg_metrics)[i]["max_drawdown"] = 1
          /\ metric_ranks(arg_metrics)[i]["annual_return"] = 3

\* C10: a single model gets the composite rank 1, whatever its metrics.
C10_SingleModelRankOne ==
    pc = "ranked" /\ Len(arg_metrics) = 1 =>
        /\ Len(ret_ranks) = 1
        /\ ret_ranks[1].name = arg_metrics[1].name
        /\ ret_ranks[1].rank = RatInt(1)

\* A single model without any metric key, ranked.
C10_Witness ==
    /\ pc = "ranked"
    /\ Len(arg_metrics) = 1
    /\ DOMAIN arg_metrics[1].metrics = {}
    /\ ret_ranks[1].rank = RatInt(1)

\* A single model with negative metric values, ranked.
C10_WitnessNegative ==
    /\ pc = "ranked"
    /\ Len(arg_metrics) = 1
    /\ \A m \in MetricSet :
          m \in DOMAIN arg_metrics[1].metrics /\ SignOf(arg_metrics[1].metrics[m]) = -1
    /\ ret_ranks[1].rank = RatInt(1)

\* Model i has a strictly higher value than model j in every metric,
\* max_drawdown included.
HigherEverywhere(i, j) ==
    \A m \in MetricSet :
        Less(Get(arg_metrics[j].metrics, m), Get(arg_metrics[i].metrics, m))

\* C11: of two models, the one strictly higher in all five metrics gets rank
\* 1 in the four higher-is-better metrics and rank 2 in max_drawdown only, so
\* its composite rank is 1 + 0.20 = 1.2 and the other model's is 1.8.
C11_DrawdownAntiMonotonic ==
    pc = "ranked" /\ Len(arg_metrics) = 2 =>
        \A i \in {1, 2} :
            HigherEverywhere(i, 3 - i) =>
                /\ \A m \in MetricSet :
                      /\ metric_ranks(arg_metrics)[i][m] =
                            IF m = "max_drawdown" THEN 2 ELSE 1
                      /\ metric_ranks(arg_metrics)[3 - i][m] =
                            IF m = "max_drawdown" THEN 1 ELSE 2
                /\ ret_ranks[i].rank = Rat(12, 10)
                /\ ret_ranks[3 - i].rank = Rat(18, 10)

\* Two models ranked, the second one higher in every metric.
C11_Witness ==
    /\ pc = "ranked"
    /\ Len(arg_metrics) = 2
    /\ HigherEverywhere(2, 1)
    /\ ret_ranks[2].rank = Rat(12, 10)
    /\ ret_ranks[1].rank = Rat(18, 10)

(***************************************************************************)
(* Properties of select_best_model on a rising and a falling model.        *)
(***************************************************************************)
PointsOf(name) ==
    backtest_data[CHOOSE i \in DOMAIN backtest_data : backtest_data[i].name = name].points

\* The points are dated on the n consecutive days ending at target_date and
\* their values change by the same non-zero amount, of sign sg, every day,
\* staying positive.
SteadyRun(points, n, sg) ==
    /\ Len(points) = n
    /\ \A i \in 1..n : points[i].date = target_date - n + i /\ points[i].value > 0
    /\ Sign(points[2].value - points[1].value) = sg
    /\ \A i \in 2..n :
          points[i].value - points[i - 1].value = points[2].value - points[1].value

\* Model A rises and B falls from the same value over the n dates of the
\* single lookback window [n].
RisingAndFalling ==
    /\ Names(backtest_data) = {"A", "B"}
    /\ Len(lookback_periods) = 1
    /\ lookback_periods[1] >= 3
    /\ SteadyRun(PointsOf("A"), lookback_periods[1], 1)
    /\ SteadyRun(PointsOf("B"), lookback_periods[1], -1)
    /\ PointsOf("A")[1].value = PointsOf("B")[1].value

\* The rank of the model called name in metric m in window w.
MetricRankIn(w, name, m) ==
    w.metric_ranks[CHOOSE i \in DOMAIN w.models : w.models[i].name = name][m]

\* C12: with a rising model A and a falling model B over the same dates of
\* the single lookback window, the call at the last date selects A with a
\* confidence above 0, and A is ranked before B in each of the five metrics.
C12_RisingBeatsFalling ==
    Returned /\ RisingAndFalling =>
        /\ result.selected_model = "A"
        /\ RatLess(RatInt(0), result.confidence)
        /\ Len(windows) = 1
        /\ windows[1].outcome = "rank"
        /\ \A m \in MetricSet :
              /\ MetricRankIn(windows[1], "A", m) = 1
              /\ MetricRankIn(windows[1], "B", m) = 2

\* The call returned for B inserted before A, both changing by 1 a day, A
\* with the aggregate rank 1 and B with 2.
C12_Witness ==
    /\ Returned
    /\ RisingAndFalling
    /\ backtest_data[1].name = "B"
    /\ PointsOf("A")[2].value = PointsOf("A")[1].value + 1
    /\ PointsOf("B")[2].value = PointsOf("B")[1].value - 1
    /\ result.selected_model = "A"
    /\ RankOf(result.all_ranks, "A") = RatInt(1)
    /\ RankOf(result.all_ranks, "B") = RatInt(2)

(***************************************************************************)
(* Properties of select_best_model on a single model.                      *)
(***************************************************************************)
SingleQualifying == Len(backtest_data) = 1 /\ ~NoQualifying

\* C13: with a single model that has 2 points or more in some configured
\* window, the call returns that model with confidence 0.0, whatever the
\* number of windows and also when the model does not qualify in all.
C13_SingleModelSelected ==
    pc \in {"done", "raised"} /\ SingleQualifying =>
        /\ Returned
        /\ result.selected_model = backtest_data[1].name
        /\ result.confidence = RatInt(0)

(***************************************************************************)
(* Properties of the single metric functions.                              *)
(***************************************************************************)
\* x is the float 0.0.
IsZeroValue(x) == IsReal(x) /\ SignOf(x) = 0

\* C14: for a series of fewer than 2 values, of any sign, and any days, no
\* metric function raises and each of the five returns 0.0.
C14_ShortSeriesZero ==
    Len(arg_values) < 2 =>
        /\ pc # "raised"
        /\ pc = "returned" => \A m \in MetricSet : IsZeroValue(ret_metrics[m])

\* The metrics of a single negative value with a positive days were returned.
C14_Witness ==
    /\ pc = "returned"
    /\ Len(arg_values) = 1
    /\ arg_values[1] < 0
    /\ arg_days > 0
    /\ \A m \in MetricSet : ret_metrics[m] = Zero

\* The metrics of the empty series were returned.
C14_WitnessEmpty ==
    /\ pc = "returned"
    /\ arg_values = <<>>
    /\ \A m \in MetricSet : ret_metrics[m] = Zero

\* No value lies below a positive earlier value: the maximum drawdown is 0.
NoDrawdown(values) ==
    \A i \in DOMAIN values : \A j \in 1..i :
        values[j] > 0 => values[i] >= values[j]

\* C15: for a series whose maximum drawdown is 0 the Calmar ratio is
\* returned and is exactly 0.0, whatever the annual return.
C15_CalmarZeroWithoutDrawdown ==
    pc \in {"returned", "raised"} /\ NoDrawdown(arg_values) =>
        /\ pc = "returned"
        /\ ret_metrics["calmar_ratio"] = Zero

\* The positions of the daily returns strictly below the threshold 0.
BelowThreshold(returns) == {i \in DOMAIN returns : RatLess(returns[i], RatInt(0))}

\* The sum of the squares of the returns at the positions S.
RECURSIVE SumSquares(_, _)
SumSquares(returns, S) ==
    IF S = {} THEN RatInt(0)
    ELSE LET i == CHOOSE j \in S : TRUE
         IN  RatAdd(RatMul(returns[i], returns[i]), SumSquares(returns, S \ {i}))

\* mean / sqrt(dsum / n) * sqrt(252) for dsum # 0, as the engine holds it.
ClaimedRatio(mean_return, dsum, n) ==
    [k |-> "real", f |-> "root", sg |-> Sign(mean_return.n),
     q |-> RatDiv(RatMul(mean_return, mean_return), RatDiv(dsum, RatInt(n)))]

ClaimedSortino(returns) ==
    IF BelowThreshold(returns) = {} THEN Zero
    ELSE ClaimedRatio(RatDiv(RatSum(returns), RatInt(Len(returns))),
                      SumSquares(returns, BelowThreshold(returns)), Len(returns))

\* C16: the Sortino ratio takes the squared deviations of the returns
\* strictly below the threshold only, divides their sum by the number of all
\* returns, and is 0.0 when no return lies below the threshold.
C16_SortinoTotalCount ==
    /\ calculate_sortino_ratio(arg_values) = ClaimedSortino(calculate_returns(arg_values))
    /\ pc = "returned" =>
          ret_metrics["sortino_ratio"] = calculate_sortino_ratio(arg_values)

\* A returned Sortino ratio of a series with one return below the threshold
\* and one above it.
C16_Witness ==
    /\ pc = "returned"
    /\ Len(arg_values) = 3
    /\ Cardinality(BelowThreshold(calculate_returns(arg_values))) = 1
    /\ \E i \in 1..2 : RatLess(RatInt(0), calculate_returns(arg_values)[i])
    /\ ret_metrics["sortino_ratio"] # Zero

\* A returned Sortino ratio 0.0 of a non-decreasing positive series that rises.
C16_WitnessNoDownside ==
    /\ pc = "returned"
    /\ Len(arg_values) = 3
    /\ \A i \in 1..3 : arg_values[i] > 0
    /\ arg_values[1] < arg_values[2] /\ arg_values[2] <= arg_values[3]
    /\ ret_metrics["sortino_ratio"] = Zero

\* arg_values split into its first k values and the rest.
PrefixOf(k) == SubSeq(arg_values, 1, k)

SuffixOf(k) == SubSeq(arg_values, k + 1, Len(arg_values))

\* The prefix holds positive values, none above the first value of the
\* series it is put in front of, and its own maximum drawdown does not
\* exceed that of the series.
AdmissiblePrefix(prefix, series) ==
    /\ \A i \in DOMAIN prefix : prefix[i] > 0 /\ prefix[i] <= series[1]
    /\ RatLeq(calculate_max_drawdown(prefix).q, calculate_max_drawdown(series).q)

\* C17: the maximum drawdown of a series does not change when an admissible
\* prefix is put in front of it; it is a real number, never negative, and at
\* most 1 when no value is negative.
C17_DrawdownPrefixInvariant ==
    /\ \A k \in 0..(Len(arg_values) - 1) :
          AdmissiblePrefix(PrefixOf(k), SuffixOf(k)) =>
              calculate_max_drawdown(arg_values) = calculate_max_drawdown(SuffixOf(k))
    /\ calculate_max_drawdown(arg_values).f = "rat"
    /\ IsReal(calculate_max_drawdown(arg_values))
    /\ RatLeq(RatInt(0), calculate_max_drawdown(arg_values).q)
    /\ (\A i \in DOMAIN arg_values : arg_values[i] >= 0) =>
          RatLeq(calculate_max_drawdown(arg_values).q, RatInt(1))
    /\ pc = "returned" =>
          ret_metrics["max_drawdown"] = calculate_max_drawdown(arg_values)

\* A returned maximum drawdown of a series behind a prefix of two values
\* that has a drawdown of its own.
C17_Witness ==
    /\ pc = "returned"
    /\ Len(arg_values) = 4
    /\ AdmissiblePrefix(PrefixOf(2), SuffixOf(2))
    /\ RatLess(RatInt(0), calculate_max_drawdown(PrefixOf(2)).q)
    /\ ret_metrics["max_drawdown"] = calculate_max_drawdown(SuffixOf(2))

(***************************************************************************)
(* Properties of concurrent calls.                                         *)
(***************************************************************************)
\* A call of select_best_model run alone on these arguments raises.
RaisesAlone(data, target, periods) ==
    \E k \in DOMAIN periods : window_pass(data, target, periods[k]).outcome = "raise"

\* Call c ended as it ends when run alone on its arguments.
AsAlone(c) ==
    /\ pc[c] = "done" =>
          /\ ~RaisesAlone(backtest_data[c], target_date[c], lookback_periods)
          /\ result[c] = select_best_model(backtest_data[c], target_date[c],
                                           lookback_periods)
    /\ pc[c] = "raised" =>
          RaisesAlone(backtest_data[c], target_date[c], lookback_periods)
    /\ pc[c] = "ranked" => ret_ranks[c] = rank_models(arg_metrics[c])

SameArguments(c, d) ==
    /\ backtest_data[c] = backtest_data[d]
    /\ target_date[c] = target_date[d]
    /\ arg_metrics[c] = arg_metrics[d]

\* C18: no step of a call changes backtest_data, model_metrics or the
\* instance's lookback_periods; under every interleaving each call ends as
\* it ends when run alone, and calls with the same arguments return the
\* same result.
C18_CallsIndependent ==
    /\ [][callInputs' = callInputs]_vars
    /\ [](\A c \in Calls :
            /\ AsAlone(c)
            /\ \A d \in Calls :
                  SameArguments(c, d) /\ pc[c] = pc[d] /\ pc[c] \in {"done", "ranked"} =>
                      result[c] = result[d] /\ ret_ranks[c] = ret_ranks[d])

\* Two calls on different arguments have returned after their passes were
\* interleaved: one is still in its loop when the other has ranked a window.
C18_Witness ==
    /\ pc[1] = "done" /\ pc[2] = "done"
    /\ backtest_data[1] # backtest_data[2]
    /\ result[1] # result[2]
    /\ result[1].all_ranks # <<>> /\ result[2].all_ranks # <<>>
    /\ Len(lookback_periods) = 2

\* Both calls are inside their loops, each with a window ranked.
C18_WitnessInterleaved ==
    /\ pc[1] = "loop" /\ pc[2] = "loop"
    /\ li[1] = 2 /\ li[2] = 2
    /\ all_ranks[1] # <<>> /\ all_ranks[2] # <<>>
    /\ Len(lookback_periods) = 2

(***************************************************************************)
(* Properties of the REST layer.                                           *)
(***************************************************************************)
RowsOf(table, model_id) == {r \in table : r.model_id = model_id}

\* The model has exactly one metric a calendar day, for n days up to and
\* including today.
DailyUpToToday(model_id, n) ==
    /\ Cardinality(RowsOf(db_metrics, model_id)) = n
    /\ {r.date : r \in RowsOf(db_metrics, model_id)} = (Today - n + 1)..Today

\* The number of days asked for, 90 when the request names none.
DaysAsked == IF request.days_given THEN request.days ELSE 90

\* C19: for a model with one metric a calendar day up to today and more
\* than N days of history, GET /models/{id}/performance?days=N answers with
\* the N data points dated today-(N-1) .. today in ascending order and with
\* days = N, N being 90 when days is not given.
C19_PerformanceLastNDays ==
    /\ pc = "responded"
    /\ request.path = "performance"
    /\ request.model_id \in db_models
    /\ \E n \in (DaysAsked + 1)..Cardinality(db_metrics) :
          DailyUpToToday(request.model_id, n)
    => /\ response.status_code = 200
       /\ response.days = DaysAsked
       /\ Len(response.data_points) = DaysAsked
       /\ \A i \in 1..DaysAsked :
             response.data_points[i].date = Today - DaysAsked + i

\* C20: GET /models/{id}/backtest answers 200 with an empty data_points
\* list for a model of the store without backtest records, and 404 for an
\* id that is not in the store.
C20_BacktestEmptyOr404 ==
    pc = "responded" /\ request.path = "backtest" =>
        /\ request.model_id \notin db_models => response.status_code = 404
        /\ (/\ request.model_id \in db_models
            /\ RowsOf(db_backtest, request.model_id) = {})
           => response = [status_code |-> 200, model_id |-> request.model_id,
                          data_points |-> <<>>]

(***************************************************************************)
(* Properties of parse_backtest_file, stated from the file alone.          *)
(***************************************************************************)
\* The numbers of the lines that are neither blank nor comments.
DataLineNumbers(file) ==
    {i \in DOMAIN file : file[i] # <<>> /\ file[i][1].text # "hash"}

\* The number of the k-th of them.
NthDataLine(file, k) ==
    CHOOSE i \in DataLineNumbers(file) :
        Cardinality({j \in DataLineNumbers(file) : j <= i}) = k

\* Five or six columns: a date, two numbers, two finite counts.
WellFormedLine(parts) ==
    /\ Len(parts) \in {5, 6}
    /\ parts[1].text = "date"
    /\ \A k \in {2, 3} : parts[k].text \in {"number", "inf"}
    /\ \A k \in {4, 5} : parts[k].text = "number"

Parseable(file_path) ==
    /\ file_path.exists
    /\ DataLineNumbers(file_path.lines) # {}
    /\ \A i \in DataLineNumbers(file_path.lines) : WellFormedLine(file_path.lines[i])

\* The record is the record of the line.
RecordOfLine(record, parts) ==
    /\ record.date = parts[1].value
    /\ record.buy_hold_value.value = parts[2].value
    /\ record.traded_value.value = parts[3].value
    /\ ("selected_model" \in DOMAIN record) = (Len(parts) = 6)

\* C21: parse_backtest_file either returns a non-empty list with exactly one
\* record for each line that is neither blank nor a comment, in the order of
\* the file, or raises BacktestParseError and returns no record: it raises
\* when the file is missing, has no data line, or has a data line with a
\* column count other than 5 and 6 or with a field that does not parse.
C21_ParseAllOrNothing ==
    pc = "done" =>
        LET file == call.file_path.lines
        IN  IF Parseable(call.file_path)
            THEN /\ ret.raised = ""
                 /\ ret.value # <<>>
                 /\ Len(ret.value) = Cardinality(DataLineNumbers(file))
                 /\ \A k \in DOMAIN ret.value :
                       RecordOfLine(ret.value[k], file[NthDataLine(file, k)])
            ELSE /\ ret.raised = "BacktestParseError"
                 /\ "value" \notin DOMAIN ret

\* A file whose third line is malformed after two good lines: the parse
\* raises at line 3.
C21_Witness ==
    /\ pc = "done"
    /\ Len(call.file_path.lines) = 3
    /\ WellFormedLine(call.file_path.lines[1])
    /\ WellFormedLine(call.file_path.lines[2])
    /\ ret.raised = "BacktestParseError"
    /\ ret.line_num = 3

\* A file with a comment between two data lines: two records are returned.
C21_WitnessReturned ==
    /\ pc = "done"
    /\ DataLineNumbers(call.file_path.lines) = {1, 3}
    /\ ret.raised = ""
    /\ Len(ret.value) = 2

(***************************************************************************)
(* Properties of the ingestion CLI.  A step is a call: call' holds its     *)
(* arguments, ret' what it returned, the unprimed tables the store before  *)
(* it and the primed ones the store after it.                              *)
(***************************************************************************)
TablesUnchanged ==
    UNCHANGED <<db_models, db_metrics, db_snapshots, db_holdings, db_backtest>>

StoreEmpty ==
    /\ db_models = {}
    /\ db_metrics = {}
    /\ db_snapshots = {}
    /\ db_holdings = {}
    /\ db_backtest = {}

IngestModelCalled == call # None /\ call.fn = "ingest_model"

IngestBacktestCalled == call # None /\ call.fn = "ingest_backtest_data"

\* C22 as stated: ingest_model returns False when the status file is absent,
\* ingest_backtest_data returns False when the backtest file is absent or no
\* model has the given name, and in each of these cases the store is left as
\* it was.
C22_FailsClosed ==
    [][/\ IngestModelCalled' /\ ~call'.data_dir.status.exists
            => ret' = Returns(FALSE) /\ TablesUnchanged
       /\ IngestBacktestCalled'
          /\ (~call'.data_dir.backtest.exists \/ call'.model_name \notin db_models)
            => ret' = Returns(FALSE) /\ TablesUnchanged]_vars

\* C22 amended: ingest_backtest_data looks for the model after it parsed the
\* file, so without a model of that name it returns False when the file
\* parses and raises BacktestParseError when it does not; the store is left
\* as it was in every one of these cases.
C22_FailsClosedOnceParsed ==
    [][/\ IngestModelCalled' /\ ~call'.data_dir.status.exists
            => ret' = Returns(FALSE) /\ TablesUnchanged
       /\ IngestBacktestCalled' /\ ~call'.data_dir.backtest.exists
            => ret' = Returns(FALSE) /\ TablesUnchanged
       /\ IngestBacktestCalled' /\ call'.data_dir.backtest.exists
          /\ call'.model_name \notin db_models
            => /\ TablesUnchanged
               /\ IF Parseable(call'.data_dir.backtest)
                  THEN ret' = Returns(FALSE)
                  ELSE ret'.raised = "BacktestParseError"]_vars

\* A backtest file that parses, for a name no model has, on a store that
\* holds another model: the call returned False.
C22_Witness ==
    /\ IngestBacktestCalled
    /\ Parseable(call.data_dir.backtest)
    /\ call.model_name \notin db_models
    /\ db_models # {}
    /\ db_metrics # {}
    /\ ret = Returns(FALSE)

\* No status file, on a store that holds the model: the call returned False.
C22_WitnessNoStatus ==
    /\ IngestModelCalled
    /\ ~call.data_dir.status.exists
    /\ call.model_name \in db_models
    /\ ret = Returns(FALSE)

\* The rows of a model in a table, and in the order of their ids.
ModelRows(table, model_id) == {r \in table : r.model_id = model_id}

RECURSIVE OrderById(_)
OrderById(rows) ==
    IF rows = {} THEN <<>>
    ELSE LET first == CHOOSE r \in rows : \A o \in rows : r.id[2] <= o.id[2]
         IN  <<first>> \o OrderById(rows \ {first})

\* The metrics of a status file: its cumu_value lines, in order.
IsCumu(line) == line.text = "cumu_value"

ExpectedMetrics(file_path) ==
    LET cumu == SelectSeq(file_path.lines, IsCumu)
    IN  [i \in DOMAIN cumu |-> <<cumu[i].date, cumu[i].value>>]

StoredMetrics(model_id) ==
    LET rows == OrderById(ModelRows(db_metrics, model_id))
    IN  [i \in DOMAIN rows |-> <<rows[i].date, rows[i].traded_value>>]

\* The snapshots of a holdings file: for every block with as many prices as
\* stocks, its date and its stocks with their prices, CASH left out.
IsCash(ticker) == ticker \in {"CASH", "cash"}

UpperCase(ticker) == IF ticker = "aapl" THEN "AAPL" ELSE ticker

ValidBlocks(file_path) ==
    IF ~file_path.exists THEN {}
    ELSE {k \in DOMAIN file_path.lines :
            /\ Len(file_path.lines[k].stocks) > 0
            /\ Len(file_path.lines[k].stocks) = Len(file_path.lines[k].buyprice)}

PairsOfBlock(block) ==
    {<<UpperCase(block.stocks[k]), block.buyprice[k]>> :
        k \in {j \in DOMAIN block.stocks : ~IsCash(block.stocks[j])}}

ExpectedSnapshots(file_path) ==
    {[date |-> file_path.lines[k].date, pairs |-> PairsOfBlock(file_path.lines[k])] :
        k \in ValidBlocks(file_path)}

HoldingsOf(snapshot) == {h \in db_holdings : h.snapshot_id = snapshot.id}

StoredSnapshots(model_id) ==
    {[date |-> s.date, pairs |-> {<<h.ticker, h.purchase_price>> : h \in HoldingsOf(s)}] :
        s \in ModelRows(db_snapshots, model_id)}

\* Every holding belongs to a snapshot of the store.
NoOrphans == \A h \in db_holdings : \E s \in db_snapshots : h.snapshot_id = s.id

\* The backtest rows of the model are the data lines of the file, in order.
RowOfLine(row, parts) ==
    /\ row.date = parts[1].value
    /\ row.buy_hold_value.value = parts[2].value
    /\ row.traded_value.value = parts[3].value
    /\ row.new_highs = (IF parts[4].value < -99999 THEN 0 ELSE parts[4].value)
    /\ (row.selected_model = Null) = (Len(parts) = 5)

BacktestAsParsed(model_id, file_path) ==
    LET rows == OrderById(ModelRows(db_backtest, model_id))
    IN  /\ Len(rows) = Cardinality(DataLineNumbers(file_path.lines))
        /\ \A k \in DOMAIN rows :
              RowOfLine(rows[k], file_path.lines[NthDataLine(file_path.lines, k)])

\* What the store holds for a model, ids apart.
StoredBuyDates(model_id) ==
    UNION {{<<s.id[2], s.date, h.ticker, h.purchase_price, h.buy_date>> :
               h \in HoldingsOf(s)} : s \in ModelRows(db_snapshots, model_id)}

ModelContent(model_id) ==
    <<StoredMetrics(model_id), StoredSnapshots(model_id), StoredBuyDates(model_id),
      Cardinality(ModelRows(db_snapshots, model_id)),
      Cardinality({h \in db_holdings : \E t \in ModelRows(db_snapshots, model_id) :
                      h.snapshot_id = t.id}),
      {<<b.id[2], b.date, b.traded_value, b.selected_model>> :
          b \in ModelRows(db_backtest, model_id)}>>

Overwritten == call # None /\ call.prompted /\ ret = Returns(TRUE)

SameCallAgain ==
    /\ call # None
    /\ call'.fn = call.fn
    /\ call'.data_dir = call.data_dir
    /\ call'.model_name = call.model_name
    /\ ret = Returns(TRUE)
    /\ ret' = Returns(TRUE)

\* C23: after ingest_model overwrote a model the store holds for it exactly
\* the metrics of the status file and the snapshots and holdings of the
\* holdings file, after ingest_backtest_data overwrote its backtest rows
\* exactly the records of the backtest file, nothing of what was there
\* before; and a second ingestion of the same files leaves the model's data
\* as the first left it.
C23_ReingestOverwrites ==
    /\ [](Overwritten /\ IngestModelCalled =>
             /\ StoredMetrics(call.model_name) = ExpectedMetrics(call.data_dir.status)
             /\ StoredSnapshots(call.model_name) = ExpectedSnapshots(call.data_dir.holdings)
             /\ Cardinality(ModelRows(db_snapshots, call.model_name))
                    = Cardinality(ValidBlocks(call.data_dir.holdings))
             /\ NoOrphans)
    /\ [](Overwritten /\ IngestBacktestCalled =>
             BacktestAsParsed(call.model_name, call.data_dir.backtest))
    /\ [][SameCallAgain =>
             ModelContent(call.model_name)' = ModelContent(call.model_name)]_vars

\* ingest_model overwrote a model that has metrics, snapshots and holdings.
C23_Witness ==
    /\ IngestModelCalled
    /\ Overwritten
    /\ call.data_dir.holdings.exists
    /\ Len(StoredMetrics(call.model_name)) = 2
    /\ db_holdings # {}

\* ingest_backtest_data overwrote the backtest rows of a model.
C23_WitnessBacktest ==
    /\ IngestBacktestCalled
    /\ Overwritten
    /\ Cardinality(ModelRows(db_backtest, call.model_name)) = 2

(***************************************************************************)
(* Properties of the buy dates, read from the stored rows: the snapshots   *)
(* of the model in the order they were added.                              *)
(***************************************************************************)
AddedSnapshots == OrderById(ModelRows(db_snapshots, call.model_name))

PairOf(holding) == <<holding.ticker, holding.purchase_price>>

PairsIn(snapshot) == {PairOf(h) : h \in HoldingsOf(snapshot)}

\* The first snapshot of the run of consecutive snapshots up to the k-th
\* that all hold the pair.
RunStart(snapshots, k, pair) ==
    CHOOSE j \in 1..k :
        /\ \A i \in j..k : pair \in PairsIn(snapshots[i])
        /\ j > 1 => pair \notin PairsIn(snapshots[j - 1])

Ingested == IngestModelCalled /\ ret = Returns(TRUE)

\* C29: ingest_model adds the snapshots in ascending order of date; the
\* buy_date of a holding is the date of the first snapshot of the latest
\* unbroken run of consecutive snapshots holding its (ticker,
\* purchase_price): that of the same pair in the snapshot just before if it
\* is there, the date of its own snapshot if not; and it is never after the
\* date of its snapshot.
C29_BuyDateOfRun ==
    Ingested =>
        LET snapshots == AddedSnapshots
        IN  /\ \A i, j \in DOMAIN snapshots :
                  i < j => snapshots[i].date <= snapshots[j].date
            /\ \A k \in DOMAIN snapshots : \A h \in HoldingsOf(snapshots[k]) :
                  /\ h.buy_date = snapshots[RunStart(snapshots, k, PairOf(h))].date
                  /\ h.buy_date <= snapshots[k].date
                  /\ IF k > 1 /\ PairOf(h) \in PairsIn(snapshots[k - 1])
                     THEN \A g \in HoldingsOf(snapshots[k - 1]) :
                             PairOf(g) = PairOf(h) => h.buy_date = g.buy_date
                     ELSE h.buy_date = snapshots[k].date

\* Three snapshots given out of order; a pair held at the first and the
\* third date, while the ticker had another price at the second, has the
\* third date as its buy date.
C29_Witness ==
    /\ Ingested
    /\ Len(AddedSnapshots) = 3
    /\ call.data_dir.holdings.lines[1].date > call.data_dir.holdings.lines[2].date
    /\ AddedSnapshots[1].date < AddedSnapshots[2].date
    /\ AddedSnapshots[2].date < AddedSnapshots[3].date
    /\ <<"AAPL", 5>> \in PairsIn(AddedSnapshots[1])
    /\ <<"AAPL", 5>> \notin PairsIn(AddedSnapshots[2])
    /\ <<"AAPL", 6>> \in PairsIn(AddedSnapshots[2])
    /\ \E h \in HoldingsOf(AddedSnapshots[3]) :
          PairOf(h) = <<"AAPL", 5>> /\ h.buy_date = AddedSnapshots[3].date

\* C30: when the model has data and the answer to the overwrite prompt is
\* anything but y or Y, ingest_model and ingest_backtest_data return False
\* and every row of every table is left as it was.
C30_DeclinedOverwrite ==
    [][call'.prompted /\ call'.answer \notin {"y", "Y"}
         => /\ ret' = Returns(FALSE)
            /\ TablesUnchanged
            /\ IngestModelCalled' => call'.model_name \in db_models
            /\ IngestBacktestCalled' => ModelRows(db_backtest, call'.model_name) # {}]_vars

\* The prompt of ingest_model was answered yes, which is not y: the call
\* returned False and the model has its metrics.
C30_Witness ==
    /\ IngestModelCalled
    /\ call.prompted
    /\ call.answer = "yes"
    /\ ret = Returns(FALSE)
    /\ ModelRows(db_metrics, call.model_name) # {}

\* The prompt of ingest_backtest_data was answered with nothing.
C30_WitnessBacktest ==
    /\ IngestBacktestCalled
    /\ call.prompted
    /\ call.answer = ""
    /\ ret = Returns(FALSE)
    /\ ModelRows(db_backtest, call.model_name) # {}

(***************************************************************************)
(* Properties of rank_models on ties and on the ranks as a whole.          *)
(***************************************************************************)
\* Models i and j have the same value in metric m, a missing key being 0.0.
Tied(m, i, j) == ~Better(m, i, j) /\ ~Better(m, j, i)

TiedWith(m, i) == {j \in DOMAIN arg_metrics : Tied(m, i, j)}

\* C24: models with the same value in a metric get distinct, consecutive
\* ranks, the model earlier in the input the smaller one, in the descending
\* metrics as in max_drawdown; of two models tied in every metric the
\* earlier one gets the smaller composite rank.
C24_TiesKeepInputOrder ==
    pc = "ranked" =>
        LET ranks == metric_ranks(arg_metrics)
        IN  /\ \A m \in MetricSet : \A i \in DOMAIN arg_metrics :
                  /\ \A j \in TiedWith(m, i) : i < j => ranks[i][m] < ranks[j][m]
                  /\ \E lo \in 1..Len(arg_metrics) :
                        {ranks[j][m] : j \in TiedWith(m, i)}
                            = lo..(lo + Cardinality(TiedWith(m, i)) - 1)
            /\ \A i, j \in DOMAIN arg_metrics :
                  i < j /\ (\A m \in MetricSet : Tied(m, i, j))
                      => RatLess(ret_ranks[i].rank, ret_ranks[j].rank)

\* Three models with the same metrics: they are ranked 1, 2, 3 in input
\* order in every metric and in the composite.
C24_Witness ==
    /\ pc = "ranked"
    /\ Len(arg_metrics) = 3
    /\ \A m \in MetricSet : TiedWith(m, 1) = {1, 2, 3}
    /\ \E m \in MetricSet : m \in DOMAIN arg_metrics[1].metrics
    /\ \A i \in 1..3 : ret_ranks[i].rank = RatInt(i)

\* The sum of the composite ranks.
CompositeSum ==
    RatSum([i \in DOMAIN ret_ranks |-> ret_ranks[i].rank])

\* C26: for N >= 1 models every metric ranks the models one-to-one onto
\* 1..N; every composite rank lies between 1 and N, and the composite ranks
\* add up to N (N + 1) / 2.
C26_RanksArePermutations ==
    pc = "ranked" /\ arg_metrics # <<>> =>
        LET ranks == metric_ranks(arg_metrics)
            N == Len(arg_metrics)
        IN  /\ \A m \in MetricSet :
                  /\ {ranks[i][m] : i \in DOMAIN arg_metrics} = 1..N
                  /\ \A i, j \in DOMAIN arg_metrics :
                        ranks[i][m] = ranks[j][m] => i = j
            /\ \A i \in DOMAIN ret_ranks :
                  /\ RatLeq(RatInt(1), ret_ranks[i].rank)
                  /\ RatLeq(ret_ranks[i].rank, RatInt(N))
            /\ CompositeSum = Rat(N * (N + 1), 2)

\* Three models that differ: the composite ranks are not whole numbers and
\* add up to 6.
C26_Witness ==
    /\ pc = "ranked"
    /\ Len(arg_metrics) = 3
    /\ \E i \in 1..3 : ret_ranks[i].rank.d # 1
    /\ CompositeSum = RatInt(6)

(***************************************************************************)
(* Properties of the windows of select_best_model.                         *)
(***************************************************************************)
\* The points given for the model of that name.
PointsNamed(name) ==
    backtest_data[CHOOSE i \in DOMAIN backtest_data : backtest_data[i].name = name].points

\* The number of the model's points dated within the window of L days.
PointsInWindow(name, L) == Cardinality(InWindow(PointsNamed(name), L))

\* The days between the first and the last of them.
SpanInWindow(name, L) ==
    LET inside == {PointsNamed(name)[i].date : i \in InWindow(PointsNamed(name), L)}
    IN  (CHOOSE d \in inside : \A e \in inside : e <= d)
        - (CHOOSE d \in inside : \A e \in inside : d <= e)

\* C25: the days a model's metrics are computed with in a window is the
\* number of its points within the window, as many as the values passed.
C25_DaysArePointCount ==
    \A k \in DOMAIN windows : \A i \in DOMAIN windows[k].models :
        LET m == windows[k].models[i]
        IN  /\ m.actual_days = PointsInWindow(m.name, windows[k].lookback_days)
            /\ m.actual_days = Len(m.values)

\* A ranked window with two models of different point counts, one of them
\* with a count that is neither the lookback nor the span of its points.
C25_Witness ==
    \E k \in DOMAIN windows :
        /\ windows[k].outcome = "rank"
        /\ Len(windows[k].models) = 2
        /\ windows[k].models[1].actual_days # windows[k].models[2].actual_days
        /\ windows[k].models[1].actual_days # windows[k].lookback_days
        /\ windows[k].models[1].actual_days
              # SpanInWindow(windows[k].models[1].name, windows[k].lookback_days)

\* The models with at least 2 points in some configured window.
QualifiedSomewhere ==
    UNION {QualifyingNames(lookback_periods[k]) : k \in DOMAIN lookback_periods}

\* C27: in a result with ranks, selected_model is a key of all_ranks, and
\* the keys of all_ranks are exactly the models with at least 2 points in at
\* least one configured window.
C27_KeysAreQualifiedModels ==
    Returned /\ result.all_ranks # <<>> =>
        /\ result.selected_model \in Names(result.all_ranks)
        /\ Names(result.all_ranks) = QualifiedSomewhere
        /\ result.selected_model \in QualifiedSomewhere

\* Two windows: one model qualifies in both, the other one in the first
\* only; both are keys, and the one ranked once is selected.
C27_Witness ==
    /\ Returned
    /\ Len(lookback_periods) = 2
    /\ Len(backtest_data) = 2
    /\ QualifyingNames(lookback_periods[1]) = {"A", "B"}
    /\ QualifyingNames(lookback_periods[2]) = {"A"}
    /\ Names(result.all_ranks) = {"A", "B"}
    /\ result.selected_model = "B"

\* One of two models has a single point in the window: it is no key of
\* all_ranks.
C27_WitnessLeftOut ==
    /\ Returned
    /\ Len(backtest_data) = 2
    /\ backtest_data[2].points # <<>>
    /\ QualifiedSomewhere = {"A"}
    /\ Names(result.all_ranks) = {"A"}

\* The largest configured lookback.
LargestLookback ==
    CHOOSE L \in {lookback_periods[k] : k \in DOMAIN lookback_periods} :
        \A k \in DOMAIN lookback_periods : lookback_periods[k] <= L

Ended == pc \in {"done", "raised"}

\* C28: the models that qualify in a window qualify in every window of a
\* lookback at least as long; when the call has ended and some window was
\* ranked, the window of the largest lookback was ranked; and a model ranked
\* in one window and not in another is missing from the shorter one.
C28_WindowsNested ==
    /\ \A j, k \in DOMAIN lookback_periods :
          lookback_periods[j] <= lookback_periods[k]
              => QualifyingNames(lookback_periods[j]) \subseteq
                 QualifyingNames(lookback_periods[k])
    /\ Ended /\ RankedWindows # {} =>
          \E k \in RankedWindows : windows[k].lookback_days = LargestLookback
    /\ \A j, k \in RankedWindows : \A name \in Names(windows[k].ranks) :
          name \notin Names(windows[j].ranks)
              => windows[j].lookback_days < windows[k].lookback_days

====
